---------------------------- MODULE Spec2Model ----------------------------
(***************************************************************************)
(* A model of the report-ingestion core of appstore-connect-mcp:           *)
(*   FinanceService        (src/src/services/finance-service.ts, the       *)
(*                          second, current copy starting at line 176)     *)
(*   SubscriptionService   (src/src/services/subscription-service.ts)      *)
(*   FinanceReportService  (src/unnamed/part_005)                          *)
(*                                                                         *)
(* Numbers.  A JavaScript number is modelled as an integer count of CENTS  *)
(* (so "3.62" is 362) or as the value NaN.  Counts (units, days, rows)     *)
(* are plain integers.  Arithmetic is exact; the sample amounts are chosen *)
(* so that every product amount * rate is a whole number of cents.         *)
(*                                                                         *)
(* Text.  A report text is a sequence of lines (the text split on "\n"),   *)
(* each line a sequence of cells (the line split on "\t").  The empty      *)
(* string is the text with one line holding one empty cell.                *)
(***************************************************************************)
EXTENDS Integers, Sequences, FiniteSets, TLC

VARIABLES
    \* --- pure functions applied to one report text (SpecParse) ---
    csvData,        \* the decompressed report text handed to a parser
    reportType,     \* the reportType argument of parseCSVReport
    ppc,            \* which function has been applied: "input", "finance", ...
    parsed,         \* result of FinanceService/SubscriptionService.parseCSVReport
    metrics,        \* result of FinanceService.calculateRevenueMetricsFromData
    finReport,      \* result of FinanceReportService.parseFinanceReport
    \* --- the fan-out operations (SpecFanout) ---
    op,             \* the orchestrator running
    vendorNumber,   \* the configured vendor number ("" when not configured)
    year, month,    \* the arguments of the operation
    pc,             \* "start", "loop", "probe", "done"
    slice,          \* number of slices (days, regions) already processed
    acc,            \* the operation's accumulator (monthlyData, ...)
    outcome,        \* "none", "returned", "threw"
    result,         \* the value returned, or the message of the error thrown
    requests,       \* upstream requests issued (client.request calls)
    errorsLogged,   \* console.error calls
    hist,           \* what the upstream answered so far (history of the run)
    \* --- the fiscal calendar (SpecFiscal) ---
    cal1, cal2,     \* two calendar (year, month) inputs
    label1, label2, \* their fiscal period labels ("" before the call)
    \* --- the payload decoders (SpecDecode) ---
    payload,        \* the data of an upstream response, as a decoder receives it
    dpc,            \* which decoder has been applied: "input", "finance", ...
    decoding,       \* what the decoder returned, or the error it threw
    \* --- FinanceReportService.getLatestAvailable (SpecLatest) ---
    now,            \* the calendar (year, month) of new Date()
    lpc,            \* "probe", "summary", "done"
    probeIndex,     \* the loop variable i
    monthSummary,   \* the locals of the getMonthlySummary call in progress
    regionsDone,    \* number of regions that call has fetched
    probes,         \* the months tried so far and what the upstream showed
    latestOutcome,  \* "none", "returned", "threw"
    latest,         \* the value returned, or the message of the error thrown
    \* --- the recurring-revenue figures (SpecRecurring) ---
    revenueTotal,   \* a revenue total, in thousandths of a dollar
    recurring,      \* the MRR and ARR reported for it, and by what
    \* --- JWTManager (SpecJwt) ---
    clock,          \* Date.now(), in milliseconds
    tokenCache,     \* the entry 'primary' of JWTManager.tokenCache, when set
    tokens,         \* the tokens generated so far, by identity
    lastCall,       \* what the last getToken call saw and returned
    ticks,          \* number of times the clock has advanced
    \* --- AppStoreClient rate limiting (SpecRate) ---
    requestCount,   \* AppStoreClient.requestCount
    windowExpired,  \* whether new Date() > requestResetTime
    windowIssued,   \* HTTP requests issued since requestResetTime was last set
    callers,        \* where each caller of request() stands
    failures,       \* number of requests that failed
    \* --- AppStoreClient.request and the 429 answer (SpecRetry) ---
    upstream,       \* the answers the upstream gives to the next requests
    rpc,            \* "call", "error", "slept", "done"
    sent,           \* HTTP requests issued by the call of request()
    sleptMs,        \* milliseconds the call has slept in handleError
    reply,          \* what request() returned, or the error it threw
    \* --- the CallTool handler and the tools (SpecTool, SpecRevenueTool) ---
    toolName,       \* request.params.name
    toolArgs,       \* request.params.arguments
    tpc,            \* "call", "subscription", "sales", "done"
    salesLog,       \* the report types requested on /salesReports, in order
    toolResponse    \* the response of the CallTool handler, once made

parseVars  == <<csvData, reportType, ppc, parsed, metrics, finReport>>
fanVars    == <<op, vendorNumber, year, month, pc, slice, acc, outcome, result,
                requests, errorsLogged, hist>>
fiscalVars == <<cal1, cal2, label1, label2>>
decodeVars == <<payload, dpc, decoding>>
\* the variables of the specifications that follow the first three
latestVars == <<now, lpc, probeIndex, monthSummary, regionsDone, probes, latestOutcome,
                latest>>
recurVars  == <<revenueTotal, recurring>>
jwtVars    == <<clock, tokenCache, tokens, lastCall, ticks>>
rateVars   == <<requestCount, windowExpired, windowIssued, callers, failures>>
retryVars  == <<upstream, rpc, sent, sleptMs, reply>>
\* the variables of the specifications of the client and the tools
toolVars   == <<toolName, toolArgs, tpc, salesLog, toolResponse>>
lateVars   == <<retryVars, toolVars>>
auxVars    == <<decodeVars, latestVars, recurVars, jwtVars, rateVars, lateVars>>
vars       == <<parseVars, fanVars, fiscalVars, auxVars>>

---------------------------------------------------------------------------
(* JavaScript numbers *)

\* The number NaN: a value outside the range of every modelled amount.
NaN == 0 - 2147483647

IsNaN(x) == x = NaN

\* a + b
Add(a, b) == IF IsNaN(a) \/ IsNaN(b) THEN NaN ELSE a + b
\* a - b
Sub(a, b) == IF IsNaN(a) \/ IsNaN(b) THEN NaN ELSE a - b
\* a > b and a < b: every comparison with NaN is false
Gt(a, b) == ~IsNaN(a) /\ ~IsNaN(b) /\ a > b
Lt(a, b) == ~IsNaN(a) /\ ~IsNaN(b) /\ a < b
\* Math.abs(a)
Abs(a) == IF IsNaN(a) THEN NaN ELSE IF a < 0 THEN 0 - a ELSE a
\* the truth value of a number: 0 and NaN are falsy
Truthy(a) == ~IsNaN(a) /\ a # 0
\* a || b on numbers
OrElse(a, b) == IF Truthy(a) THEN a ELSE b

\* n dollars, in cents
Dollars(n) == n * 100

---------------------------------------------------------------------------
(* Strings: the cells of the sample reports *)

\* String.prototype.trim on the sample cells (only these carry white space)
Trim(s) ==
    CASE s = " "  -> ""
      [] s = "S " -> "S"
      [] OTHER    -> s

\* s.includes(sub)
Includes(s, sub) ==
    \E i \in 1..(Len(s) - Len(sub) + 1) : SubSeq(s, i, i + Len(sub) - 1) = sub

\* parseFloat on the sample cells, in cents.  parseFloat reads the longest
\* numeric prefix ("1,234.56" is 1) and gives NaN when there is none.
ParseFloat(s) ==
    CASE s = "0"        -> 0
      [] s = "0.13"     -> 13
      [] s = "1.00"     -> 100
      [] s = "3.62"     -> 362
      [] s = "5.00"     -> 500
      [] s = "7.00"     -> 700
      [] s = "20"       -> 2000
      [] s = "-20"      -> 0 - 2000
      [] s = "100"      -> 10000
      [] s = "1000"     -> 100000
      [] s = "2000"     -> 200000
      [] s = "12000"    -> 1200000
      [] s = "56126"    -> 5612600
      [] s = "2000000"  -> 200000000
      [] s = "1,234.56" -> 100
      [] OTHER          -> NaN

\* parseInt(s, 10) on the sample cells (a count, not an amount)
ParseInt(s) ==
    CASE s = "0"  -> 0
      [] s = "1"  -> 1
      [] s = "2"  -> 2
      [] s = "-1" -> 0 - 1
      [] s = "3.62" -> 3
      [] s = "5.00" -> 5
      [] s = "7.00" -> 7
      [] s = "20" -> 20
      [] s = "100" -> 100
      [] OTHER    -> NaN

\* a || b on strings: the empty string is falsy
StrOr(a, b) == IF a # "" THEN a ELSE b

Range(f) == {f[i] : i \in DOMAIN f}

RECURSIVE SumSeq(_)
\* the sum of a sequence of numbers, NaN when any is NaN
SumSeq(s) == IF s = <<>> THEN 0 ELSE Add(Head(s), SumSeq(Tail(s)))

---------------------------------------------------------------------------
(* Splitting a text into a header and rows: common to the three parsers *)

\* csvData.length === 0
EmptyText == << <<"">> >>

\* line.trim() is empty: tabs are white space, so a line of blank cells is blank
IsBlank(line) == \A i \in DOMAIN line : Trim(line[i]) = ""

\* csvData.split('\n').filter(line => line.trim())
NonBlankLines(text) == SelectSeq(text, LAMBDA l : ~IsBlank(l))

\* lines[0].split('\t').map(h => h.trim())
HeadersOf(line) == [i \in DOMAIN line |-> Trim(line[i])]

\* a variant that leaves a missing trailing field undefined
CellAtUnguarded(values, index) ==
    IF index \in DOMAIN values THEN Trim(values[index]) ELSE "undefined"

\* values[index] ? values[index].trim() : ''
CellAt(values, index) ==
    IF index \in DOMAIN values /\ values[index] # "" THEN Trim(values[index]) ELSE ""

\* headers.forEach((header, index) => row[header] = ...): a later column of
\* the same name overwrites an earlier one
RowOf(headers, values) ==
    [h \in Range(headers) |->
        LET last == CHOOSE i \in DOMAIN headers :
                        /\ headers[i] = h
                        /\ \A j \in DOMAIN headers : headers[j] = h => j <= i
        IN  CellAt(values, last)]

\* row[key], where a missing key (undefined) and '' are both falsy: every
\* read of a cell in the services goes through || or a truth test
Field(row, key) == IF key \in DOMAIN row THEN row[key] ELSE ""


---------------------------------------------------------------------------
(* FinanceService: currency conversion *)

\* currency?.toUpperCase() on the sample currency codes
ToUpperCase(s) == IF s = "eur" THEN "EUR" ELSE s

\* FinanceService.currencyRates: the USD value of one unit of each currency,
\* as the fraction n / d (0.000065 is 65 / 1000000)
currencyRates ==
    [ USD |-> [n |-> 1,   d |-> 1],        EUR |-> [n |-> 11,  d |-> 10],
      GBP |-> [n |-> 127, d |-> 100],      CAD |-> [n |-> 74,  d |-> 100],
      AUD |-> [n |-> 65,  d |-> 100],      MXN |-> [n |-> 59,  d |-> 1000],
      BRL |-> [n |-> 20,  d |-> 100],      IDR |-> [n |-> 65,  d |-> 1000000],
      INR |-> [n |-> 12,  d |-> 1000],     JPY |-> [n |-> 67,  d |-> 10000],
      KRW |-> [n |-> 75,  d |-> 100000],   CNY |-> [n |-> 14,  d |-> 100],
      THB |-> [n |-> 28,  d |-> 1000],     PHP |-> [n |-> 18,  d |-> 1000],
      VND |-> [n |-> 41,  d |-> 1000000],  MYR |-> [n |-> 21,  d |-> 100],
      SGD |-> [n |-> 74,  d |-> 100],      HKD |-> [n |-> 13,  d |-> 100],
      TWD |-> [n |-> 31,  d |-> 1000],     NZD |-> [n |-> 61,  d |-> 100],
      CHF |-> [n |-> 113, d |-> 100],      SEK |-> [n |-> 95,  d |-> 1000],
      NOK |-> [n |-> 93,  d |-> 1000],     DKK |-> [n |-> 15,  d |-> 100],
      PLN |-> [n |-> 25,  d |-> 100],      RUB |-> [n |-> 11,  d |-> 1000],
      TRY |-> [n |-> 3,   d |-> 100],      TZS |-> [n |-> 39,  d |-> 100000],
      AED |-> [n |-> 27,  d |-> 100],      SAR |-> [n |-> 27,  d |-> 100],
      ZAR |-> [n |-> 53,  d |-> 1000],     ILS |-> [n |-> 27,  d |-> 100],
      EGP |-> [n |-> 21,  d |-> 1000],     NGN |-> [n |-> 65,  d |-> 100000],
      KES |-> [n |-> 78,  d |-> 10000],    PEN |-> [n |-> 27,  d |-> 100],
      COP |-> [n |-> 24,  d |-> 100000],   CLP |-> [n |-> 11,  d |-> 10000],
      ARS |-> [n |-> 1,   d |-> 1000],     RON |-> [n |-> 22,  d |-> 100] ]

\* this.currencyRates[code] || 1
RateOf(code) ==
    IF code \in DOMAIN currencyRates THEN currencyRates[code] ELSE [n |-> 1, d |-> 1]

\* FinanceService.convertToUSD(amount, currency): amount * rate
convertToUSD(amount, currency) ==
    IF IsNaN(amount) THEN NaN
    ELSE LET rate == RateOf(ToUpperCase(currency))
         IN  (amount * rate.n) \div rate.d

\* the local list highValueCurrencies of FinanceService.parseCSVReport
highValueCurrencies == {"IDR", "VND", "TZS", "KRW", "CLP", "COP"}

---------------------------------------------------------------------------
(* FinanceService.parseCSVReport *)

\* the derived proceedsUSD of one row: the magnitude heuristic
FinanceProceedsUSD(customerCurrency, proceedsRaw, customerPrice) ==
    IF customerCurrency \in highValueCurrencies
    THEN IF Gt(proceedsRaw, Dollars(1000))
         THEN convertToUSD(proceedsRaw, customerCurrency)
         ELSE proceedsRaw
    ELSE IF customerCurrency # "USD"
         THEN IF Gt(proceedsRaw, Add(customerPrice, customerPrice))
              THEN proceedsRaw
              ELSE convertToUSD(proceedsRaw, customerCurrency)
         ELSE proceedsRaw

\* rows.map(row => ({...row, _customerCurrency, ...})): one enhanced row
FinanceEnhanceRow(row) ==
    LET customerCurrency == StrOr(Field(row, "Customer Currency"), "USD")
        proceedsRaw == ParseFloat(StrOr(Field(row, "Developer Proceeds"),
                                        StrOr(Field(row, "Proceeds"), "0")))
        customerPrice == ParseFloat(StrOr(Field(row, "Customer Price"), "0"))
    IN  [ _customerCurrency |-> customerCurrency,
          _customerPrice    |-> customerPrice,
          _proceedsRaw      |-> proceedsRaw,
          _proceedsUSD      |-> FinanceProceedsUSD(customerCurrency, proceedsRaw,
                                                   customerPrice) ] @@ row

\* FinanceService.parseCSVReport(csvData, reportType); the summary text of a
\* non-empty report ("Parsed n rows from ...") is not modelled
FinanceParseCSVReport(text, rtype) ==
    IF text = EmptyText
    THEN [rows |-> <<>>, summary |-> "No data available"]
    ELSE LET lines == NonBlankLines(text)
         IN  IF lines = <<>>
             THEN [rows |-> <<>>, summary |-> "Empty report"]
             ELSE LET headers == HeadersOf(lines[1])
                      rows == [i \in 1..(Len(lines) - 1) |->
                                  FinanceEnhanceRow(RowOf(headers, lines[i + 1]))]
                  IN  [ reportType |-> rtype,
                        headers    |-> headers,
                        rows       |-> rows,
                        rowCount   |-> Len(rows) ]

---------------------------------------------------------------------------
(* SubscriptionService.parseCSVReport *)

\* row._proceedsUSD = parseFloat(row['Developer Proceeds'] || row['Proceeds'] || '0')
SubscriptionEnhanceRow(row) ==
    [ _proceedsUSD |-> ParseFloat(StrOr(Field(row, "Developer Proceeds"),
                                        StrOr(Field(row, "Proceeds"), "0"))) ] @@ row

\* SubscriptionService.parseCSVReport(csvData, reportType)
SubscriptionParseCSVReport(text, rtype) ==
    IF text = EmptyText
    THEN [rows |-> <<>>, summary |-> "No data available"]
    ELSE LET lines == NonBlankLines(text)
         IN  IF lines = <<>>
             THEN [rows |-> <<>>, summary |-> "Empty report"]
             ELSE LET headers == HeadersOf(lines[1])
                      rows == [i \in 1..(Len(lines) - 1) |->
                                  SubscriptionEnhanceRow(RowOf(headers, lines[i + 1]))]
                  IN  [ reportType |-> rtype,
                        headers    |-> headers,
                        rows       |-> rows,
                        rowCount   |-> Len(rows) ]

---------------------------------------------------------------------------
(* FinanceService.calculateRevenueMetricsFromData *)

\* the sanity ceiling of one row's revenue: $1,000,000
RevenueCeiling == Dollars(1000000)

\* revenue > 0 && revenue < 1000000
RevenueCounts(revenue) == Gt(revenue, 0) /\ Lt(revenue, RevenueCeiling)

\* parseInt(cell, 10) || 0
ParseIntOrZero(s) == OrElse(ParseInt(s), 0)

\* the state of the loop over parsedData.rows after row i
RECURSIVE CalcRows(_, _)
CalcRows(rows, i) ==
    IF i = 0
    THEN [ totalRevenue |-> 0, totalUnits |-> 0,
           productMap |-> <<>>, countryMap |-> <<>>,
           activeSubscribers |-> 0, newSubscribers |-> 0 ]
    ELSE LET st == CalcRows(rows, i - 1)
             row == rows[i]
             revenue == OrElse(row["_proceedsUSD"],
                               ParseFloat(StrOr(Field(row, "Developer Proceeds"),
                                                StrOr(Field(row, "Proceeds"), "0"))))
             units == ParseInt(StrOr(Field(row, "Units"),
                                     StrOr(Field(row, "Unit Sales"), "0")))
             product == StrOr(Field(row, "SKU"), StrOr(Field(row, "Product"), "Unknown"))
             title == StrOr(Field(row, "Title"), StrOr(Field(row, "Product Title"), product))
             country == StrOr(Field(row, "Country Code"),
                              StrOr(Field(row, "Territory"), "Unknown"))
             active == Field(row, "Active Standard Price Subscriptions")
             new == Field(row, "New Standard Price Subscriptions")
             pOld == IF product \in DOMAIN st.productMap THEN st.productMap[product]
                     ELSE [revenue |-> 0, units |-> 0, title |-> title]
             cOld == IF country \in DOMAIN st.countryMap THEN st.countryMap[country]
                     ELSE [revenue |-> 0, units |-> 0]
         IN  [ totalRevenue |-> IF RevenueCounts(revenue)
                                THEN Add(st.totalRevenue, revenue) ELSE st.totalRevenue,
               totalUnits   |-> IF RevenueCounts(revenue)
                                THEN Add(st.totalUnits, units) ELSE st.totalUnits,
               productMap   |-> (product :> [ revenue |-> Add(pOld.revenue, revenue),
                                              units   |-> Add(pOld.units, units),
                                              title   |-> pOld.title ]) @@ st.productMap,
               countryMap   |-> (country :> [ revenue |-> Add(cOld.revenue, revenue),
                                              units   |-> Add(cOld.units, units) ])
                                @@ st.countryMap,
               activeSubscribers |-> IF active # ""
                                     THEN st.activeSubscribers + ParseIntOrZero(active)
                                     ELSE st.activeSubscribers,
               newSubscribers    |-> IF new # ""
                                     THEN st.newSubscribers + ParseIntOrZero(new)
                                     ELSE st.newSubscribers ]

\* Math.round(x * 100) / 100 of an amount held in whole cents
RoundToCents(x) == x

\* the value of a property that was never assigned
Undefined == [undefined |-> TRUE]

\* FinanceService.calculateRevenueMetricsFromData(parsedData).  byProduct and
\* byCountry are kept as the maps they are built from: the descending sort is
\* presentation, and slice(0, 10) keeps every entry of a report of up to ten
\* products or countries.  subscriptions is Undefined or the record.
calculateRevenueMetricsFromData(parsedData) ==
    IF parsedData.rows = <<>>
    THEN [ totalRevenue |-> 0, totalUnits |-> 0, byProduct |-> <<>>,
           byCountry |-> <<>>, subscriptions |-> Undefined ]
    ELSE LET st == CalcRows(parsedData.rows, Len(parsedData.rows))
         IN  [ totalRevenue |-> st.totalRevenue,
               totalUnits   |-> st.totalUnits,
               byProduct    |-> st.productMap,
               byCountry    |-> st.countryMap,
               subscriptions |->
                   IF parsedData.reportType = "SUBSCRIPTION" \/ st.activeSubscribers > 0
                   THEN [ activeCount |-> st.activeSubscribers,
                          newCount |-> st.newSubscribers,
                          cancelledCount |-> 0,
                          mrr |-> RoundToCents(st.totalRevenue),
                          arr |-> RoundToCents(IF IsNaN(st.totalRevenue) THEN NaN
                                               ELSE st.totalRevenue * 12) ]
                   ELSE Undefined ]

---------------------------------------------------------------------------
(* FinanceReportService.parseFinanceReport *)

\* headers.findIndex(h => h === exact || h.includes(part)): the 1-based
\* position, 0 for "not found" (-1 in the code)
FindHeader(headers, exact, part) ==
    LET hits == {i \in DOMAIN headers : headers[i] = exact \/ Includes(headers[i], part)}
    IN  IF hits = {} THEN 0 ELSE CHOOSE i \in hits : \A j \in hits : i <= j

\* values[idx] as read in the row loop: not trimmed, "" when the line is short
RawAt(values, idx) == IF idx \in DOMAIN values THEN values[idx] ELSE ""

\* the revenue column: extendedShareIdx >= 0 ? extendedShareIdx : partnerShareIdx
RevenueIdx(headers) ==
    LET extendedShareIdx == FindHeader(headers, "Extended Partner Share", "Extended")
        partnerShareIdx == FindHeader(headers, "Partner Share", "Partner Share")
    IN  IF extendedShareIdx > 0 THEN extendedShareIdx ELSE partnerShareIdx

SalesReturnIdx(headers) == FindHeader(headers, "Sales or Return", "Sales")

\* what one line adds to totalRevenue
FinanceRowContribution(headers, values) ==
    LET revenueIdx == RevenueIdx(headers)
        salesReturnIdx == SalesReturnIdx(headers)
        revenueValue == ParseFloat(StrOr(RawAt(values, revenueIdx), "0"))
        salesOrReturn == RawAt(values, salesReturnIdx)
    IN  IF revenueIdx = 0 THEN 0
        ELSE IF salesReturnIdx > 0
             THEN IF salesOrReturn = "S" THEN revenueValue
                  ELSE IF salesOrReturn = "R" THEN Sub(0, revenueValue)
                  ELSE 0
             ELSE revenueValue

\* one parsed row: the cells by header, plus _revenue when a revenue column exists
FinanceReportRow(headers, values) ==
    IF RevenueIdx(headers) > 0
    THEN [_revenue |-> ParseFloat(StrOr(RawAt(values, RevenueIdx(headers)), "0"))]
         @@ RowOf(headers, values)
    ELSE RowOf(headers, values)

\* FinanceReportService.parseFinanceReport(data, metadata) on decoded text
parseFinanceReport(text, metadata) ==
    LET lines == NonBlankLines(text)
    IN  IF lines = <<>>
        THEN [ headers |-> <<>>, rows |-> <<>>, totalRevenue |-> 0, rowCount |-> 0,
               metadata |-> metadata ]
        ELSE LET headers == HeadersOf(lines[1])
                 n == Len(lines) - 1
             IN  [ headers  |-> headers,
                   rows     |-> [i \in 1..n |-> FinanceReportRow(headers, lines[i + 1])],
                   totalRevenue |->
                       SumSeq([i \in 1..n |-> FinanceRowContribution(headers, lines[i + 1])]),
                   rowCount |-> n,
                   metadata |-> metadata ]

---------------------------------------------------------------------------
(* The sample reports *)

\* the most data lines in a sample report
MaxRows == 2

\* per-transaction sales report: columns and sample lines
SalesHeader ==
    <<"SKU", "Country Code", "Customer Currency", "Customer Price", "Units",
      "Developer Proceeds">>

\* the same report in a version that names the last column "Proceeds"
ProceedsHeader ==
    <<"SKU", "Country Code", "Customer Currency", "Customer Price", "Units", "Proceeds">>

SalesLines ==
    { <<"sku.a", "US", "USD", "100",     "1",  "100">>,
      <<"sku.a", "ID", "IDR", "56126",   "1",  "3.62">>,
      <<"sku.a", "ID", "IDR", "56126",   "2",  "2000">>,
      <<"sku.b", "DE", "EUR", "7.00",    "1",  "5.00">>,
      <<"sku.b", "DE", "EUR", "1.00",    "1",  "5.00">>,
      <<"sku.e", "ZZ", "XXX", "7.00",    "1",  "5.00">>,
      <<"sku.a", "US", "",    "100",     "1",  "100">>,
      <<"sku.c", "US", "USD", "100",     "1",  "N/A">>,
      <<"sku.c", "US", "USD", "100",     "1">>,
      <<"sku.d", "US", "USD", "2000000", "1",  "2000000">>,
      <<"sku.a", "US", "USD", "100",     "-1", "-20">>,
      <<" ">> }

\* aggregated FINANCIAL report: columns and sample lines
FinancialHeader ==
    <<"Vendor Identifier", "Quantity", "Partner Share", "Extended Partner Share",
      "Partner Share Currency", "Sales or Return">>

\* a version without the extended column: the revenue is "Partner Share"
PartnerShareHeader ==
    <<"Vendor Identifier", "Quantity", "Partner Share", "Tax",
      "Partner Share Currency", "Sales or Return">>

\* a version without the sale-or-return column
NoFlagHeader ==
    <<"Vendor Identifier", "Quantity", "Partner Share", "Extended Partner Share",
      "Partner Share Currency", "Type">>

FinancialLines ==
    { <<"sku.a", "1",  "100",  "100",  "USD", "S">>,
      <<"sku.a", "1",  "20",   "20",   "USD", "R">>,
      <<"sku.a", "-1", "-20",  "-20",  "USD", "R">>,
      <<"sku.b", "1",  "1000", "1000", "JPY", "S">>,
      <<"sku.b", "1",  "5.00", "5.00", "EUR", "S">>,
      <<"sku.c", "1",  "N/A",  "N/A",  "USD", "S">>,
      <<"sku.a", "1",  "100",  "100",  "USD", "S ">>,
      <<"sku.a", "1",  "100">>,
      <<" ">> }

\* every text of a header line followed by up to n lines of the pool
Texts(header, pool, n) ==
    {<<header>> \o body : body \in UNION {[1..k -> pool] : k \in 0..n}}

SampleTexts ==
    {EmptyText}
    \cup Texts(SalesHeader, SalesLines, MaxRows)
    \cup Texts(ProceedsHeader, SalesLines, MaxRows)
    \cup Texts(FinancialHeader, FinancialLines, MaxRows)
    \cup Texts(PartnerShareHeader, FinancialLines, MaxRows)
    \cup Texts(NoFlagHeader, FinancialLines, MaxRows)

---------------------------------------------------------------------------
(* Idle values of the variables a specification does not use *)

ParseIdle ==
    /\ csvData = EmptyText /\ reportType = "SALES" /\ ppc = "idle"
    /\ parsed = "none" /\ metrics = "none" /\ finReport = "none"

FanIdle ==
    /\ op = "none" /\ vendorNumber = "" /\ year = 0 /\ month = 0
    /\ pc = "idle" /\ slice = 0 /\ acc = "none" /\ outcome = "none"
    /\ result = "none" /\ requests = 0 /\ errorsLogged = 0 /\ hist = "none"

FiscalIdle ==
    /\ cal1 = <<0, 0>> /\ cal2 = <<0, 0>> /\ label1 = "" /\ label2 = ""

DecodeIdle ==
    /\ payload = "none" /\ dpc = "idle" /\ decoding = "none"

LatestIdle ==
    /\ now = <<0, 0>> /\ lpc = "idle" /\ probeIndex = 0 /\ monthSummary = "none"
    /\ regionsDone = 0 /\ probes = <<>> /\ latestOutcome = "none" /\ latest = "none"

RecurIdle ==
    /\ revenueTotal = 0 /\ recurring = [by |-> "none"]

JwtIdle ==
    /\ clock = 0 /\ tokenCache = [set |-> FALSE] /\ tokens = <<>>
    /\ lastCall = [made |-> FALSE]
    /\ ticks = 0

RateIdle ==
    /\ requestCount = 0 /\ windowExpired = FALSE /\ windowIssued = 0
    /\ callers = <<>> /\ failures = 0

RetryIdle ==
    /\ upstream = <<>> /\ rpc = "idle" /\ sent = 0 /\ sleptMs = 0
    /\ reply = [kind |-> "none"]

\* no tool has been called; the arguments are the empty object
ToolIdle ==
    /\ toolName = "" /\ toolArgs = [appId |-> "", bundleId |-> "", year |-> 0, month |-> 0]
    /\ tpc = "idle" /\ salesLog = <<>> /\ toolResponse = [made |-> FALSE]

LateIdle == RetryIdle /\ ToolIdle

\* the variables of the other specifications, for SpecDecode and SpecLatest
DecodeRest == <<parseVars, fanVars, fiscalVars, latestVars, recurVars, jwtVars, rateVars,
                lateVars>>
LatestRest == <<parseVars, fanVars, fiscalVars, decodeVars, recurVars, jwtVars, rateVars,
                lateVars>>

AuxIdle == DecodeIdle /\ LatestIdle /\ RecurIdle /\ JwtIdle /\ RateIdle /\ LateIdle

\* the variables of the specifications that precede SpecRetry
earlyVars == <<parseVars, fanVars, fiscalVars, decodeVars, latestVars, recurVars, jwtVars,
               rateVars>>
EarlyIdle ==
    /\ ParseIdle /\ FanIdle /\ FiscalIdle /\ DecodeIdle /\ LatestIdle /\ RecurIdle
    /\ JwtIdle /\ RateIdle

---------------------------------------------------------------------------
(* SpecParse: the parsers and the aggregation applied to one report text *)

ParseInit ==
    /\ csvData \in SampleTexts
    /\ reportType \in {"SALES", "SUBSCRIPTION"}
    /\ ppc = "input"
    /\ parsed = "none" /\ metrics = "none" /\ finReport = "none"
    /\ FanIdle /\ FiscalIdle /\ AuxIdle

\* FinanceService.parseCSVReport(csvData, reportType)
ApplyFinanceParse ==
    /\ ppc = "input"
    /\ parsed' = FinanceParseCSVReport(csvData, reportType)
    /\ ppc' = "finance"
    /\ UNCHANGED <<csvData, reportType, metrics, finReport, fanVars, fiscalVars, auxVars>>

\* SubscriptionService.parseCSVReport(csvData, reportType)
ApplySubscriptionParse ==
    /\ ppc = "input"
    /\ parsed' = SubscriptionParseCSVReport(csvData, reportType)
    /\ ppc' = "subscription"
    /\ UNCHANGED <<csvData, reportType, metrics, finReport, fanVars, fiscalVars, auxVars>>

\* FinanceService.calculateRevenueMetricsFromData on the FinanceService rows
ApplyCalculate ==
    /\ ppc = "finance"
    /\ metrics' = calculateRevenueMetricsFromData(parsed)
    /\ ppc' = "metrics"
    /\ UNCHANGED <<csvData, reportType, parsed, finReport, fanVars, fiscalVars, auxVars>>

\* FinanceReportService.parseFinanceReport(data, metadata)
ApplyParseFinanceReport ==
    /\ ppc = "input"
    /\ finReport' = parseFinanceReport(csvData,
                        [reportType |-> "FINANCIAL", regionCode |-> "US",
                         fiscalPeriod |-> "2025-10"])
    /\ ppc' = "financeReport"
    /\ UNCHANGED <<csvData, reportType, parsed, metrics, fanVars, fiscalVars, auxVars>>

ParseNext ==
    \/ ApplyFinanceParse
    \/ ApplySubscriptionParse
    \/ ApplyCalculate
    \/ ApplyParseFinanceReport

SpecParse == ParseInit /\ [][ParseNext]_vars

---------------------------------------------------------------------------
(* Claims about the parsers *)

\* the Developer Proceeds / Proceeds value of a parsed row, as parseFloat reads it
ProceedsRawOf(row) ==
    ParseFloat(StrOr(Field(row, "Developer Proceeds"), StrOr(Field(row, "Proceeds"), "0")))

\* C1: every row parsed by FinanceService.parseCSVReport or
\* SubscriptionService.parseCSVReport has _proceedsUSD equal to its parsed
\* Developer Proceeds value, whatever the Customer Currency and Customer
\* Price: no currency rate is applied.
C1_CurrencyIdentity ==
    ppc \in {"finance", "subscription"} =>
        \A i \in DOMAIN parsed.rows :
            parsed.rows[i]["_proceedsUSD"] = ProceedsRawOf(parsed.rows[i])

\* the data lines of a text, as the parsers see them
DataLines(text) ==
    LET lines == NonBlankLines(text) IN IF lines = <<>> THEN <<>> ELSE Tail(lines)

\* a FINANCIAL text in the standard layout (revenue in column 4, currency in
\* column 5, flag in column 6) whose every row is flagged 'S' or 'R' and
\* carries a number
StandardFinancial(text) ==
    /\ NonBlankLines(text) # <<>>
    /\ NonBlankLines(text)[1] = FinancialHeader
    /\ \A i \in DOMAIN DataLines(text) :
          /\ RawAt(DataLines(text)[i], 6) \in {"S", "R"}
          /\ ~IsNaN(ParseFloat(StrOr(RawAt(DataLines(text)[i], 4), "0")))

\* the sum over the rows of +magnitude for a sale and -magnitude for a return
SalesMinusReturns(text) ==
    SumSeq([i \in DOMAIN DataLines(text) |->
        LET v == Abs(ParseFloat(StrOr(RawAt(DataLines(text)[i], 4), "0")))
        IN  IF RawAt(DataLines(text)[i], 6) = "S" THEN v ELSE 0 - v])

\* C2: in FinanceReportService.parseFinanceReport every row flagged 'S' adds
\* its partner-share magnitude to totalRevenue and every row flagged 'R'
\* subtracts its magnitude: totalRevenue = sales - returns.
C2_SaleAddsReturnSubtracts ==
    (ppc = "financeReport" /\ StandardFinancial(csvData)) =>
        finReport.totalRevenue = SalesMinusReturns(csvData)

\* the sum over the rows of the partner share converted to USD at the rate of
\* the row's partner-share currency, added for 'S' and subtracted for 'R'
ConvertedTotal(text) ==
    SumSeq([i \in DOMAIN DataLines(text) |->
        LET v == convertToUSD(ParseFloat(StrOr(RawAt(DataLines(text)[i], 4), "0")),
                              RawAt(DataLines(text)[i], 5))
        IN  IF RawAt(DataLines(text)[i], 6) = "S" THEN v ELSE 0 - v])

\* C3: every row of a FINANCIAL report enters totalRevenue converted to USD at
\* the rate of its partner-share currency, never at its local face value.
C3_FinancialRowsConverted ==
    (ppc = "financeReport" /\ StandardFinancial(csvData)) =>
        finReport.totalRevenue = ConvertedTotal(csvData)

\* C10: every parsed row carries a numeric _proceedsUSD, 0 when the proceeds
\* cell is absent, empty or unparseable, and no total or per-product or
\* per-country sum built from the rows is NaN.
C10_ProceedsAlwaysNumeric ==
    /\ ppc \in {"finance", "subscription"} =>
          \A i \in DOMAIN parsed.rows :
             /\ ~IsNaN(parsed.rows[i]["_proceedsUSD"])
             /\ IsNaN(ProceedsRawOf(parsed.rows[i])) => parsed.rows[i]["_proceedsUSD"] = 0
    /\ ppc = "metrics" =>
          /\ ~IsNaN(metrics.totalRevenue)
          /\ \A k \in DOMAIN metrics.byProduct : ~IsNaN(metrics.byProduct[k].revenue)
          /\ \A k \in DOMAIN metrics.byCountry : ~IsNaN(metrics.byCountry[k].revenue)

---------------------------------------------------------------------------
(* FinanceReportService.getFiscalPeriod and SpecFiscal *)

\* String(n).padStart(2, '0')
PadStart2(s) == IF Len(s) < 2 THEN "0" \o s ELSE s

\* the table fiscalMonthMap: calendar month -> Apple fiscal month
fiscalMonthMap ==
    (10 :> 1) @@ (11 :> 2) @@ (12 :> 3) @@ (1 :> 4) @@ (2 :> 5) @@ (3 :> 6) @@
    (4 :> 7) @@ (5 :> 8) @@ (6 :> 9) @@ (7 :> 10) @@ (8 :> 11) @@ (9 :> 12)

\* a variant that moves the fiscal year forward one month late
getFiscalPeriodLateYear(y, m) ==
    ToString(IF m > 10 THEN y + 1 ELSE y) \o "-" \o PadStart2(ToString(fiscalMonthMap[m]))

\* FinanceReportService.getFiscalPeriod(year, month)
getFiscalPeriod(y, m) ==
    LET fiscalMonth == fiscalMonthMap[m]
        fiscalYear == IF m >= 10 THEN y + 1 ELSE y
    IN  ToString(fiscalYear) \o "-" \o PadStart2(ToString(fiscalMonth))

\* the number of calendar years the fiscal mapping is exercised on
MaxYears == 3

CalendarYears == {2023 + k : k \in 1..MaxYears}

FiscalInit ==
    /\ cal1 \in CalendarYears \X (1..12)
    /\ cal2 \in CalendarYears \X (1..12)
    /\ label1 = "" /\ label2 = ""
    /\ ParseIdle /\ FanIdle /\ AuxIdle

\* label1 = getFiscalPeriod(year, month) for the first input
FiscalFirst ==
    /\ label1 = ""
    /\ label1' = getFiscalPeriod(cal1[1], cal1[2])
    /\ UNCHANGED <<cal1, cal2, label2, parseVars, fanVars, auxVars>>

\* label2 = getFiscalPeriod(year, month) for the second input
FiscalSecond ==
    /\ label2 = ""
    /\ label2' = getFiscalPeriod(cal2[1], cal2[2])
    /\ UNCHANGED <<cal1, cal2, label1, parseVars, fanVars, auxVars>>

FiscalNext == FiscalFirst \/ FiscalSecond

SpecFiscal == FiscalInit /\ [][FiscalNext]_vars

\* Number(s) of a string of decimal digits
DigitValue(c) ==
    CASE c = "0" -> 0 [] c = "1" -> 1 [] c = "2" -> 2 [] c = "3" -> 3 [] c = "4" -> 4
      [] c = "5" -> 5 [] c = "6" -> 6 [] c = "7" -> 7 [] c = "8" -> 8 [] c = "9" -> 9

RECURSIVE NumberOf(_)
NumberOf(s) ==
    IF Len(s) = 0 THEN 0
    ELSE 10 * NumberOf(SubSeq(s, 1, Len(s) - 1)) + DigitValue(SubSeq(s, Len(s), Len(s)))

\* the fiscal (year, month) a label "YYYY-MM" names
LabelYear(l) == NumberOf(SubSeq(l, 1, Len(l) - 3))
LabelMonth(l) == NumberOf(SubSeq(l, Len(l) - 1, Len(l)))

\* the inverse mapping: the calendar (year, month) of a fiscal label
CalendarOf(l) ==
    IF LabelMonth(l) <= 3
    THEN <<LabelYear(l) - 1, LabelMonth(l) + 9>>
    ELSE <<LabelYear(l), LabelMonth(l) - 3>>

\* C9: getFiscalPeriod maps Oct..Sep to fiscal months 1..12, with fiscal year
\* = calendar year + 1 exactly for months 10-12 (July 2025 is "2025-10",
\* September 2025 is "2025-12"); labels are "YYYY-MM"; two different calendar
\* months never share a label, and the inverse mapping recovers the calendar
\* month from the label.
C9_FiscalMapping ==
    /\ label1 # "" =>
          /\ Len(label1) = 7 /\ SubSeq(label1, 5, 5) = "-"
          /\ LabelMonth(label1) = ((cal1[2] + 2) % 12) + 1
          /\ LabelYear(label1) = (IF cal1[2] \in {10, 11, 12} THEN cal1[1] + 1 ELSE cal1[1])
          /\ CalendarOf(label1) = cal1
          /\ cal1 = <<2025, 7>> => label1 = "2025-10"
          /\ cal1 = <<2025, 9>> => label1 = "2025-12"
    /\ (label1 # "" /\ label2 # "" /\ label1 = label2) => cal1 = cal2

\* July 2025 and October 2025 have both been mapped
C9_Witness ==
    /\ cal1 = <<2025, 7>> /\ label1 = "2025-10"
    /\ cal2 = <<2025, 10>> /\ label2 = "2026-01"

---------------------------------------------------------------------------
(* AppStoreClient: what one upstream request gives the caller *)

\* An upstream answer is [status |-> 200, data |-> payload] or
\* [status |-> s, detail |-> d], where d is the detail of the first entry of
\* Apple's errors array and "" stands for an error body without that array.
\* A payload is [type, long, magic, inflates, raw, content]: magic
\* tells whether it starts with the gzip magic bytes 1f 8b, inflates whether
\* gunzipSync succeeds on it, raw is its bytes read as utf-8 text and content
\* is what gunzipSync returns.

\* AppStoreClient.handleError: the message of the Error thrown
handleError(status, detail) ==
    IF detail # ""
    THEN CASE status = 401 ->
                "Authentication failed: " \o detail \o ". Check your credentials."
           [] status = 403 ->
                "Permission denied: " \o detail \o ". Check your API key permissions."
           [] status = 404 -> "Resource not found: " \o detail
           [] status = 429 -> "Rate limited - please retry"
           [] OTHER -> "API Error (" \o ToString(status) \o "): " \o detail
    ELSE "API Error (" \o ToString(status) \o "): Request failed with status code "
         \o ToString(status)

\* AppStoreClient.request(endpoint, params): the data, or the error thrown
ClientRequest(answer) ==
    IF answer.status = 200
    THEN [ok |-> TRUE, value |-> answer.data]
    ELSE [ok |-> FALSE, message |-> handleError(answer.status, answer.detail)]

\* A payload is [type, long, magic, inflates, raw, content]: type is "buffer"
\* or "string", long tells whether it holds more than two bytes (characters).

RECURSIVE JoinWith(_, _)
\* parts.join(sep) on a sequence of strings
JoinWith(parts, sep) ==
    IF parts = <<>> THEN ""
    ELSE IF Len(parts) = 1 THEN parts[1]
    ELSE parts[1] \o sep \o JoinWith(Tail(parts), sep)

\* JSON.stringify(data) of a string: one quoted line in which every tab and
\* line break is written as the two characters of its escape sequence
JsonStringify(text) ==
    << <<"\"" \o JoinWith([i \in DOMAIN text |-> JoinWith(text[i], "\\t")], "\\n")
         \o "\"">> >>

\* FinanceService.decompressIfNeeded(data): a failed gunzip falls back to the
\* raw bytes, and a string that is not gzip is returned as it is
FinanceDecompressIfNeeded(data) ==
    IF data.type = "buffer"
    THEN IF data.long /\ data.magic /\ data.inflates THEN data.content ELSE data.raw
    ELSE IF data.magic /\ data.inflates THEN data.content ELSE data.raw

\* SubscriptionService.decompressIfNeeded(data): a string that is not gzip
\* leaves the string branch and reaches the final JSON.stringify
SubscriptionDecompressIfNeeded(data) ==
    IF data.type = "buffer"
    THEN IF data.long /\ data.magic /\ data.inflates THEN data.content ELSE data.raw
    ELSE IF data.long /\ data.magic
         THEN IF data.inflates THEN data.content ELSE data.raw
         ELSE JsonStringify(data.raw)

\* the decoding at the head of FinanceReportService.parseFinanceReport:
\* gunzipSync is not guarded, so a failed gunzip of a buffer is thrown; a
\* string is taken as the content
FinanceReportDecode(data) ==
    IF data.type = "buffer" /\ data.long /\ data.magic
    THEN IF data.inflates THEN [ok |-> TRUE, value |-> data.content]
         ELSE [ok |-> FALSE, message |-> "incorrect header check"]
    ELSE [ok |-> TRUE, value |-> data.raw]

\* the bytes of a gzip stream read as text: one line, one cell
GzipBytes == << <<"\\x1f\\x8b\\x08">> >>

\* a gzip-compressed buffer holding text, and a plain buffer holding text
Gzip(text) ==
    [type |-> "buffer", long |-> TRUE, magic |-> TRUE, inflates |-> TRUE,
     raw |-> GzipBytes, content |-> text]

Plain(text) ==
    [type |-> "buffer", long |-> text # EmptyText, magic |-> FALSE,
     inflates |-> FALSE, raw |-> text, content |-> text]

\* a buffer or string that starts with the gzip magic bytes and holds a
\* stream gunzipSync rejects
TruncatedGzip(type) ==
    [type |-> type, long |-> TRUE, magic |-> TRUE, inflates |-> FALSE,
     raw |-> GzipBytes, content |-> GzipBytes]

\* the two magic bytes and nothing else
MagicOnly(type) ==
    [type |-> type, long |-> FALSE, magic |-> TRUE, inflates |-> FALSE,
     raw |-> << <<"\\x1f\\x8b">> >>, content |-> << <<"\\x1f\\x8b">> >>]

\* the upstream answers used below
Report(data) == [status |-> 200, data |-> data]

NotFound == [status |-> 404, detail |-> ""]

AppleNotFound == [status |-> 404, detail |-> "There were no sales for the date specified."]

AuthFailure ==
    [status |-> 401, detail |-> "Provide a properly configured and signed bearer token"]

IsNotFound(answer) == answer.status = 404

IsAuthFailure(answer) == answer.status = 401

---------------------------------------------------------------------------
(* Calendar, ordered maps, quotients *)

\* a variant that knows no leap year
DaysInMonthNoLeap(y, m) ==
    IF m \in {4, 6, 9, 11} THEN 30 ELSE IF m = 2 THEN 28 ELSE 31

\* new Date(year, month, 0).getDate()
DaysInMonth(y, m) ==
    IF m \in {4, 6, 9, 11} THEN 30
    ELSE IF m = 2
         THEN (IF (y % 4 = 0 /\ y % 100 # 0) \/ y % 400 = 0 THEN 29 ELSE 28)
         ELSE 31

\* `${year}-${String(month).padStart(2, '0')}`
MonthLabel(y, m) == ToString(y) \o "-" \o PadStart2(ToString(m))

\* `${year}-${String(month).padStart(2, '0')}-${String(day).padStart(2, '0')}`
DateStr(y, m, d) == MonthLabel(y, m) \o "-" \o PadStart2(ToString(d))

\* new Date(year, month - 1).toLocaleDateString('en-US', { month: 'long' })
MonthName(m) ==
    <<"January", "February", "March", "April", "May", "June", "July", "August",
      "September", "October", "November", "December">>[m]

\* A Map (or an object with string keys) is the sequence of its <<key, value>>
\* entries in insertion order.
MapHas(m, k) == \E i \in DOMAIN m : m[i][1] = k

MapGet(m, k) == m[CHOOSE i \in DOMAIN m : m[i][1] = k][2]

MapSet(m, k, v) ==
    IF MapHas(m, k)
    THEN [i \in DOMAIN m |-> IF m[i][1] = k THEN <<k, v>> ELSE m[i]]
    ELSE Append(m, <<k, v>>)

\* a variant that stores the last amount instead of adding it
MapAddOverwrite(m, k, v) == MapSet(m, k, v)

\* map.set(k, (map.get(k) || 0) + v)
MapAdd(m, k, v) ==
    MapSet(m, k, Add(IF MapHas(m, k) THEN OrElse(MapGet(m, k), 0) ELSE 0, v))

\* the sum of the values of a map
MapTotal(m) == SumSeq([i \in DOMAIN m |-> m[i][2]])

\* entries.sort((a, b) => b.key - a.key): keys[i] is the sort key of s[i];
\* the sort is stable, so equal keys keep their order
SortDescBy(s, keys) ==
    LET rank(i) == Cardinality({j \in DOMAIN s : keys[j] > keys[i]})
                   + Cardinality({j \in DOMAIN s : j < i /\ keys[j] = keys[i]}) + 1
    IN  [p \in DOMAIN s |-> s[CHOOSE i \in DOMAIN s : rank(i) = p]]

\* array.slice(0, n)
Slice(s, n) == IF Len(s) <= n THEN s ELSE SubSeq(s, 1, n)

\* a / b, kept exact as the pair of its operands; b = 0 makes it NaN (a = 0)
\* or an infinity
Quotient(a, b) == [num |-> a, den |-> b]

\* a multiset of numbers as the function value -> number of occurrences
BagAdd(b, v) == IF v \in DOMAIN b THEN [b EXCEPT ![v] = @ + 1] ELSE (v :> 1) @@ b

RECURSIVE BagCount(_, _)
\* the number of elements of the multiset b among the values S
BagCount(b, S) ==
    IF S = {} THEN 0
    ELSE LET v == CHOOSE w \in S : TRUE IN b[v] + BagCount(b, S \ {v})

BagSize(b) == BagCount(b, DOMAIN b)

---------------------------------------------------------------------------
(* FinanceService.getSalesReport and getMonthlyRevenue *)

\* FinanceService.getSalesReport({reportType, dateType, date}): the parsed
\* report or the error thrown, and the number of upstream requests issued
getSalesReport(vendor, rtype, answer) ==
    IF vendor = ""
    THEN [ok |-> FALSE, requests |-> 0,
          message |-> "Vendor number required for financial reports. Set APP_STORE_VENDOR_NUMBER"]
    ELSE LET response == ClientRequest(answer)
         IN  IF response.ok
             THEN [ok |-> TRUE, requests |-> 1,
                   value |-> FinanceParseCSVReport(
                                 FinanceDecompressIfNeeded(response.value), rtype)]
             ELSE [ok |-> FALSE, requests |-> 1, message |-> response.message]

\* the monthlyData accumulator as getMonthlyRevenue creates it
NewMonthlyData(y, m) ==
    [ year |-> y, month |-> m, monthName |-> MonthName(m),
      totalRevenue |-> 0, totalTransactions |-> 0, daysWithData |-> 0,
      dailyRevenues |-> <<>>,
      countryBreakdown |-> <<>>, productBreakdown |-> <<>>, currencyBreakdown |-> <<>>,
      highRevenueDays |-> <<>> ]

\* a variant that takes every fetched report for a day with data
HasRowsAlways(report) == TRUE

\* report.rows && report.rows.length > 0
HasRows(report) == report.rows # <<>>

\* const revenue = row._proceedsUSD || 0
RowRevenue(row) == OrElse(row["_proceedsUSD"], 0)

RECURSIVE DailyRows(_, _, _)
\* report.rows.forEach(...) of the daily loop, after row i: the day's total
\* and the three breakdown maps
DailyRows(monthlyData, rows, i) ==
    IF i = 0
    THEN [ dailyTotal |-> 0,
           countryBreakdown  |-> monthlyData.countryBreakdown,
           productBreakdown  |-> monthlyData.productBreakdown,
           currencyBreakdown |-> monthlyData.currencyBreakdown ]
    ELSE LET st == DailyRows(monthlyData, rows, i - 1)
             row == rows[i]
             revenue == RowRevenue(row)
             country == StrOr(Field(row, "Country Code"), "Unknown")
             product == StrOr(Field(row, "Title"),
                              StrOr(Field(row, "Product Title"), "Unknown"))
             currency == StrOr(Field(row, "Customer Currency"), "USD")
         IN  [ dailyTotal |-> Add(st.dailyTotal, revenue),
               countryBreakdown  |-> MapAdd(st.countryBreakdown, country, revenue),
               productBreakdown  |-> MapAdd(st.productBreakdown, product, revenue),
               currencyBreakdown |-> MapAdd(st.currencyBreakdown, currency, revenue) ]

\* the threshold of a high revenue day: $10,000
HighRevenueDay == Dollars(10000)

\* the body of `if (report.rows && report.rows.length > 0)` in the daily loop.
\* dailyRevenues is held as a multiset: it is read only through its minimum,
\* maximum and sorted copy, and is deleted from the result.
AddDailyReport(monthlyData, dateStr, report) ==
    LET day == DailyRows(monthlyData, report.rows, Len(report.rows))
    IN  [ monthlyData EXCEPT
            !.daysWithData = @ + 1,
            !.totalTransactions = @ + Len(report.rows),
            !.countryBreakdown = day.countryBreakdown,
            !.productBreakdown = day.productBreakdown,
            !.currencyBreakdown = day.currencyBreakdown,
            !.totalRevenue = Add(@, day.dailyTotal),
            !.dailyRevenues = BagAdd(@, day.dailyTotal),
            !.highRevenueDays =
                IF Gt(day.dailyTotal, HighRevenueDay)
                THEN Append(@, [ date |-> dateStr, revenue |-> day.dailyTotal,
                                 transactions |-> Len(report.rows) ])
                ELSE @ ]

\* a variant of the catch block that lets a not-found error leave the loop
MonthlyRevenueCatchRaisingNotFound(message) ==
    [ logged |-> 0,
      raised |-> IF Includes(message, "404") \/ Includes(message, "not found")
                 THEN message ELSE "none" ]

\* the catch block of the daily loop: every error is swallowed, and logged
\* with console.error unless its message contains "404"
MonthlyRevenueCatch(message) ==
    [ logged |-> IF Includes(message, "404") THEN 0 ELSE 1, raised |-> "none" ]

\* one iteration of the daily loop: the accumulator after it, the number of
\* console.error calls, and the error leaving the loop ("none": no error)
MonthlyRevenueDay(monthlyData, dateStr, fetched) ==
    IF fetched.ok
    THEN [ monthlyData |-> IF HasRows(fetched.value)
                           THEN AddDailyReport(monthlyData, dateStr, fetched.value)
                           ELSE monthlyData,
           logged |-> 0, raised |-> "none" ]
    ELSE [monthlyData |-> monthlyData] @@ MonthlyRevenueCatch(fetched.message)

\* the least and the greatest element of a non-empty multiset
BagMin(b) == CHOOSE v \in DOMAIN b : \A w \in DOMAIN b : v <= w

BagMax(b) == CHOOSE v \in DOMAIN b : \A w \in DOMAIN b : v >= w

\* sorted[Math.floor(sorted.length / 2)] of the ascending sorted copy
BagMedian(b) ==
    LET k == BagSize(b) \div 2
    IN  CHOOSE v \in DOMAIN b :
            /\ BagCount(b, {w \in DOMAIN b : w < v}) <= k
            /\ BagCount(b, {w \in DOMAIN b : w <= v}) > k

\* entries sorted by revenue, the first n kept, each with its share of total
TopEntries(m, total, n) ==
    LET sorted == Slice(SortDescBy(m, [i \in DOMAIN m |-> m[i][2]]), n)
    IN  [i \in DOMAIN sorted |->
            [ name |-> sorted[i][1], revenue |-> sorted[i][2],
              percentage |-> Quotient(sorted[i][2], total) ]]

\* the statistics getMonthlyRevenue returns after the loop
MonthlyRevenueStats(monthlyData) ==
    LET base ==
          [ year |-> monthlyData.year, month |-> monthlyData.month,
            monthName |-> monthlyData.monthName,
            totalRevenue |-> monthlyData.totalRevenue,
            totalTransactions |-> monthlyData.totalTransactions,
            daysWithData |-> monthlyData.daysWithData,
            dailyAverage |-> IF monthlyData.daysWithData > 0
                             THEN Quotient(monthlyData.totalRevenue, monthlyData.daysWithData)
                             ELSE Quotient(0, 1),
            perTransaction |-> IF monthlyData.totalTransactions > 0
                               THEN Quotient(monthlyData.totalRevenue,
                                             monthlyData.totalTransactions)
                               ELSE Quotient(0, 1),
            topCountries |-> TopEntries(monthlyData.countryBreakdown,
                                        monthlyData.totalRevenue, 10),
            topProducts |-> TopEntries(monthlyData.productBreakdown,
                                       monthlyData.totalRevenue, 10),
            currencyBreakdown |->
                TopEntries(monthlyData.currencyBreakdown, monthlyData.totalRevenue,
                           Len(monthlyData.currencyBreakdown)),
            highRevenueDays |->
                Slice(SortDescBy(monthlyData.highRevenueDays,
                                 [i \in DOMAIN monthlyData.highRevenueDays |->
                                     monthlyData.highRevenueDays[i].revenue]), 10) ]
    IN  IF monthlyData.dailyRevenues # <<>>
        THEN [ dailyMin |-> BagMin(monthlyData.dailyRevenues),
               dailyMax |-> BagMax(monthlyData.dailyRevenues),
               dailyMedian |-> BagMedian(monthlyData.dailyRevenues) ] @@ base
        ELSE base

---------------------------------------------------------------------------
(* FinanceReportService.getFinancialReport, getMonthlySummary *)

\* FinanceReportService.getFinancialReport({fiscalPeriod, regionCode}): the
\* parsed report or the error thrown.  There is no vendor number check: the
\* request carries this.vendorNumber as it is.
FetchFinancialReport(fiscalPeriod, regionCode, answer) ==
    LET response == ClientRequest(answer)
    IN  IF response.ok
        THEN LET decoded == FinanceReportDecode(response.value)
             IN  IF decoded.ok
                 THEN [ok |-> TRUE,
                       value |-> parseFinanceReport(decoded.value,
                                     [ reportType |-> "FINANCIAL",
                                       regionCode |-> StrOr(regionCode, "US"),
                                       fiscalPeriod |-> fiscalPeriod ])]
                 ELSE [ok |-> FALSE, message |-> decoded.message]
        ELSE [ok |-> FALSE, message |-> response.message]

\* the regions getMonthlySummary aggregates, in its order
regions ==
    << [code |-> "US", name |-> "United States"], [code |-> "CA", name |-> "Canada"],
       [code |-> "EU", name |-> "Europe"],        [code |-> "JP", name |-> "Japan"],
       [code |-> "AU", name |-> "Australia"],     [code |-> "WW", name |-> "Rest of World"] >>

\* the local variables of getMonthlySummary before its loop
NewSummary(y, m) ==
    [ fiscalPeriod |-> getFiscalPeriod(y, m),
      totalRevenue |-> 0, byProduct |-> <<>>, byRegion |-> <<>>,
      salesRevenue |-> 0, returnsRevenue |-> 0, hasData |-> FALSE ]

\* headers.findIndex(h => h === a || h === b), 1-based, 0 for "not found"
FindHeaderExact(headers, a, b) ==
    LET hits == {i \in DOMAIN headers : headers[i] = a \/ headers[i] = b}
    IN  IF hits = {} THEN 0 ELSE CHOOSE i \in hits : \A j \in hits : i <= j

RECURSIVE RegionRows(_, _, _)
\* report.rows.forEach(...) of the region loop, after row i
RegionRows(summary, report, i) ==
    IF i = 0 THEN summary
    ELSE LET st == RegionRows(summary, report, i - 1)
             row == report.rows[i]
             productIdx == FindHeaderExact(report.headers, "Vendor Identifier", "SKU")
             salesReturnIdx ==
                 FindHeaderExact(report.headers, "Sales or Return", "Sales or Return")
         IN  IF productIdx = 0 THEN st
             ELSE LET product == StrOr(row[report.headers[productIdx]], "Unknown")
                      revenue == IF "_revenue" \in DOMAIN row
                                 THEN OrElse(row["_revenue"], 0) ELSE 0
                      salesOrReturn == IF salesReturnIdx > 0
                                       THEN row[report.headers[salesReturnIdx]] ELSE ""
                  IN  [ st EXCEPT
                          !.byProduct = MapAdd(@, product, revenue),
                          !.salesRevenue =
                              IF salesOrReturn = "S" THEN Add(@, revenue) ELSE @,
                          !.returnsRevenue =
                              IF salesOrReturn = "R" THEN Add(@, Abs(revenue)) ELSE @ ]

\* the body of `if (report.totalRevenue > 0)` in the region loop
AddRegionReport(summary, name, report) ==
    RegionRows([ summary EXCEPT
                   !.hasData = TRUE,
                   !.totalRevenue = Add(@, report.totalRevenue),
                   !.byRegion = MapSet(@, name, report.totalRevenue) ],
               report, Len(report.rows))

\* the catch block of the region loop: every error is swallowed, and logged
\* with console.error unless its message contains "404"
MonthlySummaryCatch(message) ==
    [ logged |-> IF Includes(message, "404") THEN 0 ELSE 1, raised |-> "none" ]

\* one iteration of the region loop
MonthlySummaryRegion(summary, region, fetched) ==
    IF fetched.ok
    THEN [ summary |-> IF Gt(fetched.value.totalRevenue, 0)
                       THEN AddRegionReport(summary, region.name, fetched.value)
                       ELSE summary,
           logged |-> 0, raised |-> "none" ]
    ELSE [summary |-> summary] @@ MonthlySummaryCatch(fetched.message)

\* a variant that does not carry into the next fiscal year
NextFiscalPeriodSameYear(fiscalPeriod) ==
    LET fiscalMonth == LabelMonth(fiscalPeriod)
        nextFiscalMonth == IF fiscalMonth = 12 THEN 1 ELSE fiscalMonth + 1
    IN  ToString(LabelYear(fiscalPeriod)) \o "-" \o PadStart2(ToString(nextFiscalMonth))

\* the next fiscal period computed by isLatestAvailableMonth
NextFiscalPeriod(fiscalPeriod) ==
    LET fiscalYear == LabelYear(fiscalPeriod)
        fiscalMonth == LabelMonth(fiscalPeriod)
        nextFiscalMonth == IF fiscalMonth = 12 THEN 1 ELSE fiscalMonth + 1
        nextFiscalYear == IF fiscalMonth = 12 THEN fiscalYear + 1 ELSE fiscalYear
    IN  ToString(nextFiscalYear) \o "-" \o PadStart2(ToString(nextFiscalMonth))

\* FinanceReportService.isLatestAvailableMonth(fiscalPeriod): true exactly
\* when the fetch of the next period (US) throws
isLatestAvailableMonth(fiscalPeriod, answer) ==
    ~FetchFinancialReport(NextFiscalPeriod(fiscalPeriod), "US", answer).ok

\* the value getMonthlySummary returns
MonthlySummaryResult(summary, y, m, isLatestAvailable) ==
    [ totalRevenue |-> summary.totalRevenue,
      byProduct |-> summary.byProduct,
      byRegion |-> summary.byRegion,
      salesVsReturns |-> [sales |-> summary.salesRevenue,
                          returns |-> summary.returnsRevenue],
      metadata |-> [ fiscalPeriod |-> summary.fiscalPeriod,
                     month |-> MonthLabel(y, m),
                     year |-> y,
                     isLatestAvailable |-> isLatestAvailable ] ]

---------------------------------------------------------------------------
(* SubscriptionService: getSubscriptionRenewals, getMonthlySubscriptionAnalytics *)

\* null, and the test for it
Null == [null |-> TRUE]

IsNull(x) == "null" \in DOMAIN x

\* a * b on numbers
Mul(a, b) == IF IsNaN(a) \/ IsNaN(b) THEN NaN ELSE a * b

\* String.prototype.toLowerCase on the sample product titles
ToLowerCase(s) ==
    CASE s = "Pro Monthly" -> "pro monthly"
      [] s = "Coins"       -> "coins"
      [] s = "Unknown"     -> "unknown"
      [] OTHER             -> s

RECURSIVE AnalyzeRows(_, _)
\* the loop of analyzeSubscriptionData after row i
AnalyzeRows(rows, i) ==
    IF i = 0
    THEN [ activeSubscribers |-> 0, newSubscribers |-> 0, canceledSubscribers |-> 0,
           revenue |-> 0, subscriptionsByProduct |-> <<>>, subscriptionsByCountry |-> <<>> ]
    ELSE LET st == AnalyzeRows(rows, i - 1)
             row == rows[i]
             active == ParseInt(StrOr(Field(row, "Active Standard Price Subscriptions"), "0"))
             newSubs == ParseInt(StrOr(Field(row, "New Standard Price Subscriptions"), "0"))
             canceled == ParseInt(StrOr(Field(row, "Canceled Subscriptions"), "0"))
             revenue == ParseFloat(StrOr(Field(row, "Developer Proceeds"),
                                         StrOr(Field(row, "Proceeds"), "0")))
             product == StrOr(Field(row, "SKU"), StrOr(Field(row, "Product"), "Unknown"))
             country == StrOr(Field(row, "Country Code"), "Unknown")
         IN  [ activeSubscribers   |-> Add(st.activeSubscribers, active),
               newSubscribers      |-> Add(st.newSubscribers, newSubs),
               canceledSubscribers |-> Add(st.canceledSubscribers, canceled),
               revenue             |-> Add(st.revenue, revenue),
               subscriptionsByProduct |->
                   IF product # "Unknown"
                   THEN MapAdd(st.subscriptionsByProduct, product, active)
                   ELSE st.subscriptionsByProduct,
               subscriptionsByCountry |->
                   IF country # "Unknown"
                   THEN MapAdd(st.subscriptionsByCountry, country, active)
                   ELSE st.subscriptionsByCountry ]

\* SubscriptionService.analyzeSubscriptionData(parsedData)
analyzeSubscriptionData(parsedData) ==
    LET st == AnalyzeRows(parsedData.rows, Len(parsedData.rows))
    IN  [ totalSubscribers |-> st.activeSubscribers,
          averagePrice |-> IF Gt(st.activeSubscribers, 0)
                           THEN Quotient(st.revenue, st.activeSubscribers)
                           ELSE Quotient(0, 1) ] @@ st

\* the isSubscription test of extractSubscriptionFromSales
IsSubscription(productType, product) ==
    \/ Includes(productType, "Auto-Renewable")
    \/ Includes(productType, "Subscription")
    \/ Includes(ToLowerCase(product), "subscription")
    \/ Includes(ToLowerCase(product), "monthly")
    \/ Includes(ToLowerCase(product), "yearly")
    \/ Includes(ToLowerCase(product), "annual")

RECURSIVE ExtractRows(_, _)
\* the loop of extractSubscriptionFromSales after row i
ExtractRows(rows, i) ==
    IF i = 0
    THEN [ subscriptionRevenue |-> 0, oneTimeRevenue |-> 0, newSubscriptions |-> 0,
           subscriptionTypes |-> <<>>, countries |-> <<>>, products |-> <<>> ]
    ELSE LET st == ExtractRows(rows, i - 1)
             row == rows[i]
             productType == Field(row, "Product Type Identifier")
             revenue == OrElse(row["_proceedsUSD"], 0)
             units == ParseInt(StrOr(Field(row, "Units"), "0"))
             product == StrOr(Field(row, "Title"),
                              StrOr(Field(row, "Product Title"), "Unknown"))
             country == StrOr(Field(row, "Country Code"), "Unknown")
             sku == Field(row, "SKU")
             isSubscription == IsSubscription(productType, product)
         IN  [ subscriptionRevenue |-> IF isSubscription
                                       THEN Add(st.subscriptionRevenue, revenue)
                                       ELSE st.subscriptionRevenue,
               oneTimeRevenue |-> IF isSubscription THEN st.oneTimeRevenue
                                  ELSE Add(st.oneTimeRevenue, revenue),
               newSubscriptions |-> IF isSubscription
                                    THEN Add(st.newSubscriptions, units)
                                    ELSE st.newSubscriptions,
               subscriptionTypes |-> IF isSubscription
                                     THEN MapAdd(st.subscriptionTypes, productType, units)
                                     ELSE st.subscriptionTypes,
               countries |-> MapAdd(st.countries, country, revenue),
               products |-> IF isSubscription /\ Gt(units, 0)
                            THEN Append(st.products,
                                        [ sku |-> sku, product |-> product, units |-> units,
                                          revenue |-> revenue,
                                          averagePrice |-> Quotient(revenue, units) ])
                            ELSE st.products ]

\* SubscriptionService.extractSubscriptionFromSales(parsedData)
extractSubscriptionFromSales(parsedData) ==
    LET st == ExtractRows(parsedData.rows, Len(parsedData.rows))
    IN  [ st EXCEPT !.products =
              SortDescBy(@, [i \in DOMAIN @ |-> @[i].revenue]) ]

\* SubscriptionService.calculateEstimatedMRR(data).  activeSubscribers *
\* averagePrice and estimatedActiveBase * averagePrice are kept as quotients:
\* with newSubscriptions = 0 the second is 0 / 0
calculateEstimatedMRR(data) ==
    IF ~IsNull(data.renewalData) /\ Gt(data.renewalData.activeSubscribers, 0)
    THEN Quotient(Mul(data.renewalData.activeSubscribers,
                      data.renewalData.averagePrice.num),
                  data.renewalData.averagePrice.den)
    ELSE IF ~IsNull(data.salesData)
         THEN Quotient(Mul(Mul(data.salesData.newSubscriptions, 10),
                           data.salesData.subscriptionRevenue),
                       data.salesData.newSubscriptions)
         ELSE Quotient(0, 1)

\* the four report requests getSubscriptionRenewals tries, in its order
subscriptionParams ==
    << [reportType |-> "SUBSCRIPTION",       reportSubType |-> "SUMMARY",  version |-> "1_2"],
       [reportType |-> "SUBSCRIPTION",       reportSubType |-> "DETAILED", version |-> "1_2"],
       [reportType |-> "SUBSCRIPTION_EVENT", reportSubType |-> "SUMMARY",  version |-> "1_2"],
       [reportType |-> "SUBSCRIBER",         reportSubType |-> "DETAILED", version |-> "1_3"] >>

RECURSIVE RenewalAttempts(_, _)
\* the loop over subscriptionParams after attempt i: answers[i] is what the
\* upstream answers to attempt i, were it issued
RenewalAttempts(answers, i) ==
    IF i = 0
    THEN [renewalData |-> Null, dataSource |-> "none", requests |-> 0, stopped |-> FALSE]
    ELSE LET st == RenewalAttempts(answers, i - 1)
             response == ClientRequest(answers[i])
             report == SubscriptionParseCSVReport(
                           SubscriptionDecompressIfNeeded(response.value),
                           subscriptionParams[i].reportType)
         IN  IF st.stopped THEN st
             ELSE IF response.ok /\ report.rows # <<>>
                  THEN [ renewalData |-> analyzeSubscriptionData(report),
                         dataSource |-> subscriptionParams[i].reportType,
                         requests |-> st.requests + 1, stopped |-> TRUE ]
                  ELSE [st EXCEPT !.requests = @ + 1]

\* SubscriptionService.getSubscriptionRenewals(date): answers[1..4] answer
\* the subscription report requests, answers[5] the SALES request
getSubscriptionRenewals(vendor, date, answers) ==
    IF vendor = ""
    THEN [ok |-> FALSE, requests |-> 0,
          message |-> "Vendor number required for subscription reports"]
    ELSE LET tried == RenewalAttempts(answers, 4)
             salesResponse == ClientRequest(answers[5])
             salesParsed == SubscriptionParseCSVReport(
                                SubscriptionDecompressIfNeeded(salesResponse.value), "SALES")
             hasSales == salesResponse.ok /\ salesParsed.rows # <<>>
             salesData == IF hasSales THEN extractSubscriptionFromSales(salesParsed)
                          ELSE Null
             results ==
                 [ date |-> date,
                   renewalData |-> tried.renewalData,
                   newSubscriptions |-> Null,
                   salesData |-> salesData,
                   totalRenewals |-> 0,
                   totalNewSubscriptions |->
                       IF hasSales THEN OrElse(salesData.newSubscriptions, 0) ELSE 0,
                   dataSource |->
                       IF hasSales /\ IsNull(tried.renewalData)
                       THEN "SALES_INFERRED" ELSE tried.dataSource ]
         IN  [ok |-> TRUE, requests |-> tried.requests + 1,
              value |-> [estimatedMRR |-> calculateEstimatedMRR(results)] @@ results]

\* the analytics accumulator as getMonthlySubscriptionAnalytics creates it
NewAnalytics(y, m) ==
    [ year |-> y, month |-> m, monthName |-> MonthName(m),
      totalNewSubscriptions |-> 0, totalRenewals |-> 0, totalChurn |-> 0,
      netSubscriberGrowth |-> 0, subscriptionRevenue |-> 0, oneTimeRevenue |-> 0,
      averageSubscriptionValue |-> Quotient(0, 1),
      subscriptionTypes |-> <<>>, geographicDistribution |-> <<>>,
      dailyMetrics |-> <<>> ]

RECURSIVE MapAddAll(_, _, _)
\* for (const [k, v] of Object.entries(obj)) map.set(k, (map.get(k) || 0) + v),
\* for the first i entries
MapAddAll(m, entries, i) ==
    IF i = 0 THEN m
    ELSE MapAdd(MapAddAll(m, entries, i - 1), entries[i][1], entries[i][2])

\* the body of `if (dailyData)` in the daily loop
AddDailyData(analytics, dateStr, dailyData) ==
    LET withSales ==
          IF IsNull(dailyData.salesData) THEN analytics
          ELSE [ analytics EXCEPT
                   !.subscriptionRevenue =
                       Add(@, OrElse(dailyData.salesData.subscriptionRevenue, 0)),
                   !.oneTimeRevenue =
                       Add(@, OrElse(dailyData.salesData.oneTimeRevenue, 0)),
                   !.subscriptionTypes =
                       MapAddAll(@, dailyData.salesData.subscriptionTypes,
                                 Len(dailyData.salesData.subscriptionTypes)),
                   !.geographicDistribution =
                       MapAddAll(@, dailyData.salesData.countries,
                                 Len(dailyData.salesData.countries)) ]
    IN  [ withSales EXCEPT
            !.totalNewSubscriptions = Add(@, OrElse(dailyData.totalNewSubscriptions, 0)),
            !.totalRenewals = Add(@, OrElse(dailyData.totalRenewals, 0)),
            !.dailyMetrics = Append(@, [ date |-> dateStr,
                                         newSubscriptions |-> dailyData.totalNewSubscriptions,
                                         renewals |-> dailyData.totalRenewals,
                                         estimatedMRR |-> dailyData.estimatedMRR ]) ]

\* the catch block of the daily loop: every error is swallowed, none is logged
AnalyticsCatch(message) == [logged |-> 0, raised |-> "none"]

\* one iteration of the daily loop
AnalyticsDay(analytics, dateStr, fetched) ==
    IF fetched.ok
    THEN [ analytics |-> AddDailyData(analytics, dateStr, fetched.value),
           logged |-> 0, raised |-> "none" ]
    ELSE [analytics |-> analytics] @@ AnalyticsCatch(fetched.message)

\* the value getMonthlySubscriptionAnalytics returns
AnalyticsResult(analytics) ==
    LET averageSubscriptionValue ==
          IF Gt(analytics.totalNewSubscriptions, 0)
          THEN Quotient(analytics.subscriptionRevenue, analytics.totalNewSubscriptions)
          ELSE analytics.averageSubscriptionValue
        types == SortDescBy(analytics.subscriptionTypes,
                            [i \in DOMAIN analytics.subscriptionTypes |->
                                analytics.subscriptionTypes[i][2]])
    IN  [ year |-> analytics.year, month |-> analytics.month,
          monthName |-> analytics.monthName,
          totalNewSubscriptions |-> analytics.totalNewSubscriptions,
          totalRenewals |-> analytics.totalRenewals,
          totalChurn |-> analytics.totalChurn,
          netSubscriberGrowth |->
              Sub(analytics.totalNewSubscriptions, analytics.totalChurn),
          subscriptionRevenue |-> analytics.subscriptionRevenue,
          oneTimeRevenue |-> analytics.oneTimeRevenue,
          averageSubscriptionValue |-> averageSubscriptionValue,
          geographicDistribution |-> analytics.geographicDistribution,
          dailyMetrics |-> analytics.dailyMetrics,
          subscriptionTypes |->
              [i \in DOMAIN types |-> [type |-> types[i][1], count |-> types[i][2]]],
          topCountries |-> TopEntries(analytics.geographicDistribution,
                                      analytics.subscriptionRevenue, 10),
          summary |->
              [ totalRevenue |-> Add(analytics.subscriptionRevenue, analytics.oneTimeRevenue),
                subscriptionPercentage |->
                    Quotient(analytics.subscriptionRevenue,
                             Add(analytics.subscriptionRevenue, analytics.oneTimeRevenue)),
                estimatedActiveSubscribers |->
                    Sub(Add(analytics.totalNewSubscriptions, analytics.totalRenewals),
                        analytics.totalChurn),
                averageSubscriptionValue |-> averageSubscriptionValue ] ]

---------------------------------------------------------------------------
(* SpecFanout: the month-wide operations against a nondeterministic upstream *)

\* the most slices of one run that get an answer out of the ordinary
MaxSpecial == 1

\* the calendar months requested: July 2025 (31 days) and the leap February
\* of 2024 (29 days)
Months == {<<2025, 7>>, <<2024, 2>>}

\* the configured vendor number; "" when APP_STORE_VENDOR_NUMBER is not set
VendorNumbers == {"", "85012345"}

\* the daily sales report of one $100 sale
Day100 == Report(Gzip(<<SalesHeader, <<"sku.a", "US", "USD", "100", "1", "100">> >>))

\* a report with a header and no line
DayHeaderOnly == Report(Plain(<<SalesHeader>>))

\* a day with an unparseable proceeds cell, a EUR row, a refund and a row
\* that carries $2,000,000
DayOdd ==
    Report(Plain(<<SalesHeader,
                   <<"sku.c", "US", "USD", "100", "1", "N/A">>,
                   <<"sku.b", "DE", "EUR", "7.00", "1", "5.00">>,
                   <<"sku.a", "US", "USD", "100", "-1", "-20">>,
                   <<"sku.d", "US", "USD", "2000000", "1", "2000000">> >>))

\* a day whose only row is a free download: proceeds 0
DayFree == Report(Plain(<<SalesHeader, <<"sku.f", "US", "USD", "0", "1", "0">> >>))

\* what the upstream may answer to the fetch of one day
SalesAnswers(h) ==
    {NotFound, Day100}
    \cup (IF h.special < MaxSpecial
          THEN {AppleNotFound, AuthFailure, DayHeaderOnly, DayOdd, DayFree}
          ELSE {})

\* the rows a sales answer carries, as FinanceService parses them
SalesRowsOf(answer) ==
    IF answer.status = 200
    THEN FinanceParseCSVReport(answer.data.content, "SALES").rows
    ELSE <<>>

\* the USD proceeds of the rows of an answer, an unparseable cell counting 0
ProceedsOf(rows) ==
    SumSeq([i \in DOMAIN rows |->
        IF IsNaN(rows[i]["_proceedsUSD"]) THEN 0 ELSE rows[i]["_proceedsUSD"]])

\* the same, a row above the $1,000,000 ceiling counting 0
CappedProceedsOf(rows) ==
    SumSeq([i \in DOMAIN rows |->
        IF IsNaN(rows[i]["_proceedsUSD"]) \/ rows[i]["_proceedsUSD"] > RevenueCeiling
        THEN 0 ELSE rows[i]["_proceedsUSD"]])

\* the FINANCIAL report of a region with one $100 sale
Region100 == Report(Gzip(<<FinancialHeader, <<"sku.a", "1", "100", "100", "USD", "S">> >>))

\* a region with a sale, two returns, a JPY sale and an unparseable share
RegionOdd ==
    Report(Plain(<<FinancialHeader,
                   <<"sku.a", "1",  "100",  "100",  "USD", "S">>,
                   <<"sku.a", "1",  "20",   "20",   "USD", "R">>,
                   <<"sku.a", "-1", "-20",  "-20",  "USD", "R">>,
                   <<"sku.b", "1",  "1000", "1000", "JPY", "S">> >>))

\* a region with nothing but a return: its total is not positive
RegionReturnsOnly ==
    Report(Plain(<<FinancialHeader, <<"sku.a", "1", "20", "20", "USD", "R">> >>))

\* what the upstream may answer to the fetch of one region
RegionAnswers(h) ==
    {NotFound, Region100}
    \cup (IF h.special < MaxSpecial
          THEN {AppleNotFound, AuthFailure, RegionOdd, RegionReturnsOnly}
          ELSE {})

\* what the upstream may answer to the probe of the next fiscal period
ProbeAnswers == {NotFound, Region100, AuthFailure, Report(TruncatedGzip("buffer"))}

\* the total of a region's answer as FinanceReportService parses it
RegionTotalOf(answer) ==
    IF answer.status = 200
    THEN parseFinanceReport(answer.data.content, "none").totalRevenue
    ELSE 0

\* daily sales report (SubscriptionService reads Title and Product Type)
SubscriptionSalesHeader ==
    <<"SKU", "Title", "Product Type Identifier", "Country Code", "Customer Currency",
      "Units", "Developer Proceeds">>

\* a day with one subscription sale of $100 and one one-time sale of $20
SalesWithSubscription ==
    Report(Gzip(<<SubscriptionSalesHeader,
                  <<"sku.pro",   "Pro Monthly", "IAY", "US", "USD", "1", "100">>,
                  <<"sku.coins", "Coins",       "IA1", "DE", "USD", "2", "20">> >>))

\* a day with one one-time sale and no subscription sale
SalesOneTimeOnly ==
    Report(Plain(<<SubscriptionSalesHeader,
                   <<"sku.coins", "Coins", "IA1", "US", "USD", "1", "20">> >>))

\* a subscription report with two active subscribers
SubscriptionReportHeader ==
    <<"SKU", "Country Code", "Active Standard Price Subscriptions",
      "New Standard Price Subscriptions", "Canceled Subscriptions", "Developer Proceeds">>

SubscriptionReport ==
    Report(Gzip(<<SubscriptionReportHeader, <<"sku.pro", "US", "2", "1", "0", "20">> >>))

\* the ordinary day: no report of any kind exists
AllNotFound == <<NotFound, NotFound, NotFound, NotFound, NotFound>>

\* what the upstream may answer to the five requests of one day
RenewalAnswers(h) ==
    {AllNotFound}
    \cup (IF h.special < MaxSpecial
          THEN { <<NotFound, NotFound, NotFound, NotFound, SalesWithSubscription>>,
                 <<NotFound, NotFound, NotFound, NotFound, SalesOneTimeOnly>>,
                 <<AppleNotFound, SubscriptionReport, NotFound, NotFound,
                   SalesWithSubscription>>,
                 <<AuthFailure, AuthFailure, AuthFailure, AuthFailure, AuthFailure>> }
          ELSE {})

\* the rows of the SALES answer of a day, as SubscriptionService parses them
RenewalSalesRowsOf(answer) ==
    IF answer.status = 200
    THEN SubscriptionParseCSVReport(answer.data.content, "SALES").rows
    ELSE <<>>

\* the history of a run: how many slices were fetched, how many of them the
\* upstream answered with 404, with 401, with data, out of the ordinary; the
\* revenue the upstream sent, in all and without the rows above the ceiling;
\* the sum of the totals of the reports fetched; the answer to the probe
\* of the next fiscal period; the log of the report requests issued by
\* getMonthlyRevenue and getMonthlySummary, each with its filters; and the
\* number of rows the upstream sent
NewHist ==
    [ fetched |-> 0, notFound |-> 0, authFailed |-> 0, withData |-> 0, special |-> 0,
      expected |-> 0, capped |-> 0, reportTotals |-> 0, probe |-> "none",
      log |-> <<>>, rows |-> 0 ]

\* the history after one more slice
Observe(h, seen) ==
    [ fetched    |-> h.fetched + 1,
      notFound   |-> h.notFound + (IF seen.notFound THEN 1 ELSE 0),
      authFailed |-> h.authFailed + (IF seen.authFailed THEN 1 ELSE 0),
      withData   |-> h.withData + (IF seen.withData THEN 1 ELSE 0),
      special    |-> h.special + (IF seen.special THEN 1 ELSE 0),
      expected   |-> h.expected + seen.expected,
      capped     |-> h.capped + seen.capped,
      reportTotals |-> h.reportTotals + seen.reportTotal,
      probe      |-> h.probe,
      log        |-> h.log,
      rows       |-> h.rows + seen.rows ]

\* the history with one more request in its log
Logged(h, request) == [h EXCEPT !.log = Append(@, request)]

\* what the answer to the fetch of one day shows
SeenSales(answer) ==
    [ notFound |-> IsNotFound(answer), authFailed |-> IsAuthFailure(answer),
      withData |-> SalesRowsOf(answer) # <<>>,
      special |-> answer \notin {NotFound, Day100},
      expected |-> ProceedsOf(SalesRowsOf(answer)),
      capped |-> CappedProceedsOf(SalesRowsOf(answer)),
      reportTotal |-> ProceedsOf(SalesRowsOf(answer)),
      rows |-> Len(SalesRowsOf(answer)) ]

\* what the answer to the fetch of one region shows
SeenRegion(answer) ==
    [ notFound |-> IsNotFound(answer), authFailed |-> IsAuthFailure(answer),
      withData |-> Gt(RegionTotalOf(answer), 0),
      special |-> answer \notin {NotFound, Region100},
      expected |-> IF Gt(RegionTotalOf(answer), 0) THEN RegionTotalOf(answer) ELSE 0,
      capped |-> IF Gt(RegionTotalOf(answer), 0) THEN RegionTotalOf(answer) ELSE 0,
      reportTotal |-> RegionTotalOf(answer),
      rows |-> 0 ]

\* what the answers to the five requests of one day show
SeenRenewal(answers) ==
    [ notFound |-> \A i \in DOMAIN answers : IsNotFound(answers[i]),
      authFailed |-> \E i \in DOMAIN answers : IsAuthFailure(answers[i]),
      withData |-> RenewalSalesRowsOf(answers[5]) # <<>>,
      special |-> answers # AllNotFound,
      expected |-> ProceedsOf(RenewalSalesRowsOf(answers[5])),
      capped |-> CappedProceedsOf(RenewalSalesRowsOf(answers[5])),
      reportTotal |-> ProceedsOf(RenewalSalesRowsOf(answers[5])),
      rows |-> Len(RenewalSalesRowsOf(answers[5])) ]

FanoutOps == {"getMonthlyRevenue", "getMonthlySummary", "getMonthlySubscriptionAnalytics"}

\* the number of slices of the running operation
SliceCount ==
    IF op = "getMonthlySummary" THEN Len(regions) ELSE DaysInMonth(year, month)

FanInit ==
    /\ op \in FanoutOps
    /\ vendorNumber \in VendorNumbers
    /\ \E ym \in Months : year = ym[1] /\ month = ym[2]
    /\ pc = "start" /\ slice = 0 /\ acc = "none"
    /\ outcome = "none" /\ result = "none"
    /\ requests = 0 /\ errorsLogged = 0
    /\ hist = NewHist
    /\ ParseIdle /\ FiscalIdle /\ AuxIdle

\* getMonthlyRevenue without a vendor number: throws before the loop
MonthlyRevenueNoVendor ==
    /\ op = "getMonthlyRevenue" /\ pc = "start"
    /\ vendorNumber = ""
    /\ pc' = "done" /\ outcome' = "threw"
    /\ result' = "Vendor number required for revenue reports"
    /\ UNCHANGED <<op, vendorNumber, year, month, slice, acc, requests, errorsLogged,
                   hist, parseVars, fiscalVars, auxVars>>

\* getMonthlyRevenue up to the daily loop
MonthlyRevenueStart ==
    /\ op = "getMonthlyRevenue" /\ pc = "start"
    /\ vendorNumber # ""
    /\ acc' = NewMonthlyData(year, month)
    /\ pc' = "loop"
    /\ UNCHANGED <<op, vendorNumber, year, month, slice, outcome, result, requests,
                   errorsLogged, hist, parseVars, fiscalVars, auxVars>>

\* one iteration of the daily loop: the fetch of the next day and its handling
MonthlyRevenueFetchDay ==
    /\ op = "getMonthlyRevenue" /\ pc = "loop"
    /\ slice < DaysInMonth(year, month)
    /\ \E answer \in SalesAnswers(hist) :
          LET dateStr == DateStr(year, month, slice + 1)
              fetched == getSalesReport(vendorNumber, "SALES", answer)
              step == MonthlyRevenueDay(acc, dateStr, fetched)
          IN  /\ acc' = step.monthlyData
              /\ slice' = slice + 1
              /\ requests' = requests + fetched.requests
              /\ errorsLogged' = errorsLogged + step.logged
              /\ hist' = Logged(Observe(hist, SeenSales(answer)),
                                 [ endpoint |-> "/salesReports", reportType |-> "SALES",
                                   frequency |-> "DAILY", reportDate |-> dateStr ])
              /\ IF step.raised = "none"
                 THEN UNCHANGED <<pc, outcome, result>>
                 ELSE pc' = "done" /\ outcome' = "threw" /\ result' = step.raised
    /\ UNCHANGED <<op, vendorNumber, year, month, parseVars, fiscalVars, auxVars>>

\* getMonthlyRevenue after the loop: the statistics are returned
MonthlyRevenueReturn ==
    /\ op = "getMonthlyRevenue" /\ pc = "loop"
    /\ slice = DaysInMonth(year, month)
    /\ result' = MonthlyRevenueStats(acc)
    /\ pc' = "done" /\ outcome' = "returned"
    /\ UNCHANGED <<op, vendorNumber, year, month, slice, acc, requests, errorsLogged,
                   hist, parseVars, fiscalVars, auxVars>>

\* getMonthlySummary up to the region loop
MonthlySummaryStart ==
    /\ op = "getMonthlySummary" /\ pc = "start"
    /\ acc' = NewSummary(year, month)
    /\ pc' = "loop"
    /\ UNCHANGED <<op, vendorNumber, year, month, slice, outcome, result, requests,
                   errorsLogged, hist, parseVars, fiscalVars, auxVars>>

\* one iteration of the region loop: the fetch of the next region and its handling
MonthlySummaryFetchRegion ==
    /\ op = "getMonthlySummary" /\ pc = "loop"
    /\ slice < Len(regions)
    /\ \E answer \in RegionAnswers(hist) :
          LET region == regions[slice + 1]
              fetched == FetchFinancialReport(acc.fiscalPeriod, region.code, answer)
              step == MonthlySummaryRegion(acc, region, fetched)
          IN  /\ acc' = step.summary
              /\ slice' = slice + 1
              /\ requests' = requests + 1
              /\ errorsLogged' = errorsLogged + step.logged
              /\ hist' = Logged(Observe(hist, SeenRegion(answer)),
                                 [ endpoint |-> "/financeReports", reportType |-> "FINANCIAL",
                                   regionCode |-> region.code,
                                   reportDate |-> acc.fiscalPeriod ])
              /\ IF step.raised = "none"
                 THEN UNCHANGED <<pc, outcome, result>>
                 ELSE pc' = "done" /\ outcome' = "threw" /\ result' = step.raised
    /\ UNCHANGED <<op, vendorNumber, year, month, parseVars, fiscalVars, auxVars>>

\* getMonthlySummary after the loop: the probe of the next fiscal period, and
\* the return of the summary
MonthlySummaryReturn ==
    /\ op = "getMonthlySummary" /\ pc = "loop"
    /\ slice = Len(regions)
    /\ \E answer \in ProbeAnswers :
          /\ result' = MonthlySummaryResult(acc, year, month,
                           isLatestAvailableMonth(acc.fiscalPeriod, answer))
          /\ hist' = Logged([hist EXCEPT !.probe = answer],
                             [ endpoint |-> "/financeReports", reportType |-> "FINANCIAL",
                               regionCode |-> "US",
                               reportDate |-> NextFiscalPeriod(acc.fiscalPeriod) ])
    /\ requests' = requests + 1
    /\ pc' = "done" /\ outcome' = "returned"
    /\ UNCHANGED <<op, vendorNumber, year, month, slice, acc, errorsLogged,
                   parseVars, fiscalVars, auxVars>>

\* getMonthlySubscriptionAnalytics up to the daily loop: no vendor number check
AnalyticsStart ==
    /\ op = "getMonthlySubscriptionAnalytics" /\ pc = "start"
    /\ acc' = NewAnalytics(year, month)
    /\ pc' = "loop"
    /\ UNCHANGED <<op, vendorNumber, year, month, slice, outcome, result, requests,
                   errorsLogged, hist, parseVars, fiscalVars, auxVars>>

\* one iteration of the daily loop: getSubscriptionRenewals for the next day
\* and its handling.  Without a vendor number getSubscriptionRenewals throws
\* before any request, so the upstream is not asked and shows nothing.
AnalyticsFetchDay ==
    /\ op = "getMonthlySubscriptionAnalytics" /\ pc = "loop"
    /\ slice < DaysInMonth(year, month)
    /\ \E answers \in RenewalAnswers(hist) :
          LET dateStr == DateStr(year, month, slice + 1)
              fetched == getSubscriptionRenewals(vendorNumber, dateStr, answers)
              step == AnalyticsDay(acc, dateStr, fetched)
          IN  /\ acc' = step.analytics
              /\ slice' = slice + 1
              /\ requests' = requests + fetched.requests
              /\ errorsLogged' = errorsLogged + step.logged
              /\ hist' = IF fetched.requests = 0 THEN hist
                         ELSE Observe(hist, SeenRenewal(answers))
              /\ IF step.raised = "none"
                 THEN UNCHANGED <<pc, outcome, result>>
                 ELSE pc' = "done" /\ outcome' = "threw" /\ result' = step.raised
    /\ UNCHANGED <<op, vendorNumber, year, month, parseVars, fiscalVars, auxVars>>

\* getMonthlySubscriptionAnalytics after the loop: the analytics are returned
AnalyticsReturn ==
    /\ op = "getMonthlySubscriptionAnalytics" /\ pc = "loop"
    /\ slice = DaysInMonth(year, month)
    /\ result' = AnalyticsResult(acc)
    /\ pc' = "done" /\ outcome' = "returned"
    /\ UNCHANGED <<op, vendorNumber, year, month, slice, acc, requests, errorsLogged,
                   hist, parseVars, fiscalVars, auxVars>>

FanNext ==
    \/ MonthlyRevenueNoVendor
    \/ MonthlyRevenueStart
    \/ MonthlyRevenueFetchDay
    \/ MonthlyRevenueReturn
    \/ MonthlySummaryStart
    \/ MonthlySummaryFetchRegion
    \/ MonthlySummaryReturn
    \/ AnalyticsStart
    \/ AnalyticsFetchDay
    \/ AnalyticsReturn

SpecFanout == FanInit /\ [][FanNext]_vars

---------------------------------------------------------------------------
(* Claims about the month-wide operations *)

\* C4: getMonthlyRevenue over a month in which k days return a report with
\* rows and the other days return 404 (or another error, or a report without
\* rows) has daysWithData = k and totalRevenue = the sum of the USD proceeds
\* of the rows of those k days, an unparseable proceeds cell counting 0; a
\* 31-day month with two days answered 404 and 29 days of $100 gives
\* totalRevenue = 2900 and daysWithData = 29.
C4_MonthlyRevenueAccounting ==
    /\ (op = "getMonthlyRevenue" /\ pc = "loop") =>
          /\ acc.daysWithData = hist.withData
          /\ acc.totalRevenue = hist.expected
    /\ (op = "getMonthlyRevenue" /\ outcome = "returned") =>
          /\ result.daysWithData = hist.withData
          /\ result.totalRevenue = hist.expected
          /\ hist.fetched = DaysInMonth(year, month)
          /\ (hist.fetched = 31 /\ hist.notFound = 2 /\ hist.special = 0) =>
                (result.totalRevenue = Dollars(2900) /\ result.daysWithData = 29)

\* July 2025: two days were answered 404, the other 29 carried $100 each
C4_Witness ==
    /\ op = "getMonthlyRevenue" /\ outcome = "returned"
    /\ <<year, month>> = <<2025, 7>>
    /\ hist.fetched = 31 /\ hist.notFound = 2 /\ hist.withData = 29
    /\ result.totalRevenue = Dollars(2900) /\ result.daysWithData = 29

\* the revenue total of the accumulator of the running operation
TotalOf(a) ==
    CASE op = "getMonthlyRevenue" -> a.totalRevenue
      [] op = "getMonthlySummary" -> a.totalRevenue
      [] OTHER -> Add(a.subscriptionRevenue, a.oneTimeRevenue)

\* the accumulator apart from the per-day log of the subscription analytics
Accumulated(a) ==
    IF op = "getMonthlySubscriptionAnalytics" THEN [a EXCEPT !.dailyMetrics = <<>>] ELSE a

\* a step in which the upstream answers the slice with 404
NotFoundStep == pc = "loop" /\ hist'.notFound = hist.notFound + 1

\* C5: in getMonthlyRevenue, getMonthlySummary and
\* getMonthlySubscriptionAnalytics, whichever slices the upstream answers
\* with 404 (all of them included), no exception leaves the operation; it
\* goes on to fetch every remaining slice and returns a result to which no
\* 404 slice has contributed.
C5_NotFoundTolerated ==
    /\ [](outcome = "threw" => hist.fetched = 0)
    /\ []((outcome = "returned" /\ hist.fetched > 0) =>
            /\ hist.fetched = SliceCount
            /\ TotalOf(acc) = hist.expected
            /\ hist.notFound = SliceCount => TotalOf(acc) = 0)
    /\ [][NotFoundStep =>
            /\ pc' = "loop" /\ slice' = slice + 1
            /\ Accumulated(acc') = Accumulated(acc)
            /\ op = "getMonthlySubscriptionAnalytics" =>
                  /\ Len(acc'.dailyMetrics) = Len(acc.dailyMetrics) + 1
                  /\ acc'.dailyMetrics[Len(acc'.dailyMetrics)].newSubscriptions = 0
                  /\ acc'.dailyMetrics[Len(acc'.dailyMetrics)].renewals = 0]_vars

\* getMonthlySummary returned after four regions answered 404 and two
\* carried $100 each
C5_Witness ==
    /\ op = "getMonthlySummary" /\ outcome = "returned"
    /\ hist.fetched = 6 /\ hist.notFound = 4 /\ hist.withData = 2
    /\ result.totalRevenue = Dollars(200)

\* C6: an authentication failure (401) of a slice fetch of getMonthlyRevenue
\* or getMonthlySummary aborts the operation at once with an error; no result
\* is returned after it.
C6_AuthFailureAborts ==
    (op \in {"getMonthlyRevenue", "getMonthlySummary"} /\ hist.authFailed > 0) =>
        (pc = "done" /\ outcome = "threw")

\* C7: without a vendor number the operations behind the financial tools end
\* with the configuration error before any upstream request; no result is
\* returned and no request carries a stand-in vendor number.
C7_MissingVendorIsConfigurationError ==
    (vendorNumber = "" /\ pc = "done") =>
        /\ outcome = "threw"
        /\ requests = 0
        /\ Includes(result, "Vendor number required")

\* C8: a row whose USD proceeds exceed the $1,000,000 ceiling adds nothing to
\* the totalRevenue of the daily loop of getMonthlyRevenue.
C8_CeilingExcludesRow ==
    (op = "getMonthlyRevenue" /\ pc \in {"loop", "done"} /\ outcome # "threw") =>
        acc.totalRevenue = hist.capped


---------------------------------------------------------------------------
(* Claims about the row layout of parseCSVReport *)

\* C11: parseCSVReport takes the first non-blank line as the header and maps
\* every later non-blank line onto it by position: there is one row per later
\* non-blank line, every row has a value for every header name, the value is
\* the trimmed field at the header's position, '' when the line has fewer
\* fields, and an empty or header-only text gives zero rows.
C11_RowsFollowHeader ==
    ppc \in {"finance", "subscription"} =>
        LET lines == NonBlankLines(csvData)
        IN  IF Len(lines) <= 1
            THEN parsed.rows = <<>>
            ELSE /\ Len(parsed.rows) = Len(lines) - 1
                 /\ \A i \in DOMAIN parsed.rows : \A k \in DOMAIN lines[1] :
                       LET name == Trim(lines[1][k])
                           isLast == \A j \in DOMAIN lines[1] :
                                        Trim(lines[1][j]) = name => j <= k
                       IN  /\ name \in DOMAIN parsed.rows[i]
                           /\ isLast =>
                                parsed.rows[i][name] =
                                    (IF k <= Len(lines[i + 1])
                                     THEN Trim(lines[i + 1][k]) ELSE "")

\* a sales report whose only data line stops before the proceeds column has
\* been parsed by FinanceService.parseCSVReport
C11_Witness ==
    /\ ppc = "finance"
    /\ csvData = <<SalesHeader, <<"sku.c", "US", "USD", "100", "1">> >>
    /\ Len(parsed.rows) = 1
    /\ parsed.rows[1]["Developer Proceeds"] = ""
    /\ parsed.rows[1]["Units"] = "1"

---------------------------------------------------------------------------
(* SpecDecode: the three decoders applied to one payload *)

\* the payloads of one representation: every sample sales text plain and
\* gzipped, the empty payload, and the two malformed gzip streams
PayloadsOf(type) ==
    {[Plain(t) EXCEPT !.type = type] : t \in Texts(SalesHeader, SalesLines, MaxRows)}
    \cup {[Gzip(t) EXCEPT !.type = type] : t \in Texts(SalesHeader, SalesLines, MaxRows)}
    \cup {[Plain(EmptyText) EXCEPT !.type = type], TruncatedGzip(type), MagicOnly(type)}

Payloads == PayloadsOf("buffer") \cup PayloadsOf("string")

DecodeInit ==
    /\ payload \in Payloads
    /\ dpc = "input"
    /\ decoding = "none"
    /\ ParseIdle /\ FanIdle /\ FiscalIdle /\ LatestIdle /\ RecurIdle /\ JwtIdle /\ RateIdle
    /\ LateIdle

\* FinanceService.decompressIfNeeded(data)
DecodeFinance ==
    /\ dpc = "input"
    /\ decoding' = [ok |-> TRUE, value |-> FinanceDecompressIfNeeded(payload)]
    /\ dpc' = "finance"
    /\ UNCHANGED <<payload, DecodeRest>>

\* SubscriptionService.decompressIfNeeded(data)
DecodeSubscription ==
    /\ dpc = "input"
    /\ decoding' = [ok |-> TRUE, value |-> SubscriptionDecompressIfNeeded(payload)]
    /\ dpc' = "subscription"
    /\ UNCHANGED <<payload, DecodeRest>>

\* the decoding step of FinanceReportService.parseFinanceReport(data, metadata)
DecodeFinanceReport ==
    /\ dpc = "input"
    /\ decoding' = FinanceReportDecode(payload)
    /\ dpc' = "financeReport"
    /\ UNCHANGED <<payload, DecodeRest>>

DecodeNext == DecodeFinance \/ DecodeSubscription \/ DecodeFinanceReport

SpecDecode == DecodeInit /\ [][DecodeNext]_vars

\* C12: no decoder raises on malformed gzip: for a payload that starts with
\* the gzip magic bytes and does not decompress, each of the three decoders
\* returns the raw bytes read as text.
C12_MalformedGzipFallsBack ==
    (dpc \in {"finance", "subscription", "financeReport"}
     /\ payload.magic /\ ~payload.inflates) =>
        (decoding.ok /\ decoding.value = payload.raw)

\* C13: for a payload that does not start with the gzip magic bytes, buffer
\* or string, each decoder returns the payload's text unchanged.
C13_PlainPayloadUnchanged ==
    (dpc \in {"finance", "subscription", "financeReport"} /\ ~payload.magic) =>
        (decoding.ok /\ decoding.value = payload.raw)

---------------------------------------------------------------------------
(* Claims about FinanceReportService.getMonthlySummary *)

\* C14: getMonthlySummary returns totalRevenue equal to the sum, over the six
\* regions whose fetch succeeded, of the region's report total; a region
\* whose fetch failed adds 0 and no fetched region is left out.
C14_SummarySumsEveryRegion ==
    (op = "getMonthlySummary" /\ outcome = "returned") =>
        /\ hist.fetched = Len(regions)
        /\ result.totalRevenue = hist.reportTotals

\* C16: the isLatestAvailable flag of getMonthlySummary is false exactly when
\* the upstream has a report for the next fiscal period (US) and true exactly
\* when it has none, after one forward probe.
C16_LatestFlagFollowsNextPeriod ==
    (op = "getMonthlySummary" /\ outcome = "returned") =>
        /\ requests = Len(regions) + 1
        /\ result.metadata.isLatestAvailable = FALSE <=> hist.probe.status = 200
        /\ result.metadata.isLatestAvailable = TRUE <=> hist.probe.status = 404

---------------------------------------------------------------------------
(* FinanceReportService.getLatestAvailable and SpecLatest *)

\* the number of months getLatestAvailable tries: for (let i = 0; i < 3; i++)
MonthsTried == 3

\* new Date(now.getFullYear(), now.getMonth() - i, 1) as (year, month)
MonthsBack(ym, i) ==
    IF ym[2] - i >= 1 THEN <<ym[1], ym[2] - i>> ELSE <<ym[1] - 1, ym[2] - i + 12>>

\* a variant that returns the first month whose US report can be fetched
LatestAcceptsAny(s) == TRUE

\* if (summary.totalRevenue > 0)
LatestAccepts(s) == Gt(s.totalRevenue, 0)

\* the value getLatestAvailable returns
LatestResult(s, ym) ==
    [ totalRevenue |-> s.totalRevenue,
      byRegion |-> s.byRegion,
      metadata |-> [ fiscalPeriod |-> getFiscalPeriod(ym[1], ym[2]),
                     month |-> MonthLabel(ym[1], ym[2]) ] ]

\* the months new Date() is taken from
NowMonths == {<<2025, 7>>, <<2025, 2>>, <<2025, 1>>}

\* what the upstream may answer to the US fetch that tests a month
TestAnswers == {NotFound, AuthFailure, Region100}

\* what the upstream may answer to a region fetch of the summary
SummaryAnswers == {NotFound, Region100, RegionReturnsOnly}

LatestInit ==
    /\ now \in NowMonths
    /\ lpc = "probe" /\ probeIndex = 0
    /\ monthSummary = "none" /\ regionsDone = 0
    /\ probes = <<>>
    /\ latestOutcome = "none" /\ latest = "none"
    /\ ParseIdle /\ FanIdle /\ FiscalIdle /\ DecodeIdle /\ RecurIdle /\ JwtIdle /\ RateIdle
    /\ LateIdle

\* the head of one iteration: the US fetch that tests the month.  A failure
\* is caught and the loop continues with the month before.
LatestProbe ==
    /\ lpc = "probe" /\ probeIndex < MonthsTried
    /\ \E answer \in TestAnswers :
          LET ym == MonthsBack(now, probeIndex)
              fetched == FetchFinancialReport(getFiscalPeriod(ym[1], ym[2]), "US", answer)
          IN  /\ probes' = Append(probes, [ ym |-> ym, usOk |-> fetched.ok,
                                            regionRevenue |-> 0 ])
              /\ IF fetched.ok
                 THEN /\ lpc' = "summary"
                      /\ monthSummary' = NewSummary(ym[1], ym[2])
                      /\ regionsDone' = 0
                      /\ UNCHANGED probeIndex
                 ELSE /\ probeIndex' = probeIndex + 1
                      /\ UNCHANGED <<lpc, monthSummary, regionsDone>>
    /\ UNCHANGED <<now, latestOutcome, latest, LatestRest>>

\* one iteration of the region loop of the getMonthlySummary call
LatestSummaryRegion ==
    /\ lpc = "summary" /\ regionsDone < Len(regions)
    /\ \E answer \in SummaryAnswers :
          LET fetched == FetchFinancialReport(monthSummary.fiscalPeriod,
                                              regions[regionsDone + 1].code, answer)
              step == MonthlySummaryRegion(monthSummary, regions[regionsDone + 1], fetched)
          IN  /\ monthSummary' = step.summary
              /\ probes' = [probes EXCEPT ![Len(probes)].regionRevenue =
                               @ + SeenRegion(answer).expected]
    /\ regionsDone' = regionsDone + 1
    /\ UNCHANGED <<now, lpc, probeIndex, latestOutcome, latest,
                   LatestRest>>

\* the end of the getMonthlySummary call (with its probe of the next fiscal
\* period) and the test of its total: return, or go on to the month before
LatestSummaryReturn ==
    /\ lpc = "summary" /\ regionsDone = Len(regions)
    /\ \E answer \in ProbeAnswers :
          LET ym == MonthsBack(now, probeIndex)
              s == MonthlySummaryResult(monthSummary, ym[1], ym[2],
                       isLatestAvailableMonth(monthSummary.fiscalPeriod, answer))
          IN  IF LatestAccepts(s)
              THEN /\ latestOutcome' = "returned"
                   /\ latest' = LatestResult(s, ym)
                   /\ lpc' = "done"
                   /\ UNCHANGED probeIndex
              ELSE /\ probeIndex' = probeIndex + 1
                   /\ lpc' = "probe"
                   /\ UNCHANGED <<latestOutcome, latest>>
    /\ UNCHANGED <<now, monthSummary, regionsDone, probes,
                   LatestRest>>

\* after the loop: throw new Error('No financial reports available ...')
LatestThrow ==
    /\ lpc = "probe" /\ probeIndex = MonthsTried
    /\ latestOutcome' = "threw"
    /\ latest' = "No financial reports available in the last 3 months"
    /\ lpc' = "done"
    /\ UNCHANGED <<now, probeIndex, monthSummary, regionsDone, probes,
                   LatestRest>>

LatestNext ==
    \/ LatestProbe
    \/ LatestSummaryRegion
    \/ LatestSummaryReturn
    \/ LatestThrow

SpecLatest == LatestInit /\ [][LatestNext]_vars

\* a tried month has data: its US fetch succeeded and the regions sent revenue
HasData(p) == p.usOk /\ p.regionRevenue > 0

---------------------------------------------------------------------------
(* The recurring-revenue figures and SpecRecurring *)

\* Amounts in this section are whole thousandths of a dollar, so that the
\* fraction of a cent a converted amount carries (0.13 EUR is 0.143 USD) is
\* kept and the rounding to cents is a real step.

\* the largest revenue total tried, in thousandths of a dollar
MaxTotal == 200

\* Math.round(x * 100) / 100 of a non-negative amount: to the nearest cent,
\* a half going up
RoundToHundredths(x) == ((x + 5) \div 10) * 10

\* the mrr and arr of the subscriptions block of
\* FinanceService.calculateRevenueMetricsFromData
SubscriptionsRecurring(totalRevenue) ==
    LET mrr == totalRevenue
    IN  [ mrr |-> RoundToHundredths(mrr), arr |-> RoundToHundredths(mrr * 12) ]

\* the MRR and ARR of the get_revenue_metrics tool
ToolRecurring(totalRevenue) ==
    LET MRR == totalRevenue
        ARR == MRR * 12
    IN  [ mrr |-> MRR, arr |-> ARR ]

RecurInit ==
    /\ revenueTotal \in 0..MaxTotal
    /\ recurring = [by |-> "none"]
    /\ ParseIdle /\ FanIdle /\ FiscalIdle /\ DecodeIdle /\ LatestIdle /\ JwtIdle /\ RateIdle
    /\ LateIdle

RecurRest == <<parseVars, fanVars, fiscalVars, decodeVars, latestVars, jwtVars, rateVars,
               lateVars>>

\* calculateRevenueMetricsFromData builds subscriptions for metrics.totalRevenue
ApplySubscriptionsBlock ==
    /\ recurring.by = "none"
    /\ recurring' = [by |-> "metrics"] @@ SubscriptionsRecurring(revenueTotal)
    /\ UNCHANGED <<revenueTotal, RecurRest>>

\* get_revenue_metrics reports latest.totalRevenue
ApplyRevenueMetricsTool ==
    /\ recurring.by = "none"
    /\ recurring' = [by |-> "tool"] @@ ToolRecurring(revenueTotal)
    /\ UNCHANGED <<revenueTotal, RecurRest>>

RecurNext == ApplySubscriptionsBlock \/ ApplyRevenueMetricsTool

SpecRecurring == RecurInit /\ [][RecurNext]_vars

\* C17: wherever both figures are reported, ARR is exactly 12 times the MRR
\* reported with it, for every revenue total.
C17_ArrIsTwelveMrr ==
    recurring.by # "none" => recurring.arr = 12 * recurring.mrr

---------------------------------------------------------------------------
(* Claims about the subscriptions block *)

\* the row set has a subscription-shaped column
HasSubscriptionColumns(rows) ==
    \E i \in DOMAIN rows :
        \/ "Active Standard Price Subscriptions" \in DOMAIN rows[i]
        \/ "New Standard Price Subscriptions" \in DOMAIN rows[i]

\* C18: calculateRevenueMetricsFromData leaves subscriptions absent for every
\* row set without the Active/New Standard Price Subscriptions columns,
\* whatever the report type.
C18_SubscriptionsNeedColumns ==
    (ppc = "metrics" /\ ~HasSubscriptionColumns(parsed.rows)) =>
        metrics.subscriptions = Undefined

---------------------------------------------------------------------------
(* JWTManager and SpecJwt *)

\* Time is in milliseconds, as Date.now() gives it; iat and exp are in whole
\* seconds, as generateJWT computes them.

\* 19 * 60 * 1000: how long getToken keeps a token
CacheLifetime == 19 * 60 * 1000

\* 20 * 60: the lifetime generateJWT writes into exp, in seconds
TokenLifetime == 20 * 60

\* the most clock advances and the most tokens of a run
MaxTicks == 3
MaxTokens == 2

\* the amounts by which the clock advances between calls
TickSteps == {1, 1000, 60 * 1000, CacheLifetime - 1, CacheLifetime}

\* the millisecond within the second at which the run starts
StartClocks == {0, 999}

\* JWTManager.generateJWT at time t: now = Math.floor(Date.now() / 1000)
generateJWT(t) ==
    LET seconds == t \div 1000
    IN  [iat |-> seconds, exp |-> seconds + TokenLifetime, generatedAt |-> t]

\* cached && cached.expiry > new Date()
CacheValid(cache, t) == cache.set /\ cache.expiry > t

JwtInit ==
    /\ clock \in StartClocks
    /\ tokenCache = [set |-> FALSE]
    /\ tokens = <<>>
    /\ lastCall = [made |-> FALSE]
    /\ ticks = 0
    /\ ParseIdle /\ FanIdle /\ FiscalIdle /\ DecodeIdle /\ LatestIdle /\ RecurIdle /\ RateIdle
    /\ LateIdle

JwtRest == <<parseVars, fanVars, fiscalVars, decodeVars, latestVars, recurVars, rateVars,
               lateVars>>

\* JWTManager.getToken() answered from the cache
GetTokenCached ==
    /\ CacheValid(tokenCache, clock)
    /\ lastCall' = [ made |-> TRUE, at |-> clock, token |-> tokenCache.token,
                     generated |-> FALSE, before |-> tokenCache, after |-> tokenCache ]
    /\ UNCHANGED <<clock, tokenCache, tokens, ticks, JwtRest>>

\* JWTManager.getToken() generating a token and caching it
GetTokenFresh ==
    /\ ~CacheValid(tokenCache, clock)
    /\ Len(tokens) < MaxTokens
    /\ tokens' = Append(tokens, generateJWT(clock))
    /\ tokenCache' = [ set |-> TRUE, token |-> Len(tokens) + 1,
                       expiry |-> clock + CacheLifetime ]
    /\ lastCall' = [ made |-> TRUE, at |-> clock, token |-> Len(tokens) + 1,
                     generated |-> TRUE, before |-> tokenCache, after |-> tokenCache' ]
    /\ UNCHANGED <<clock, ticks, JwtRest>>

\* JWTManager.clearCache()
ClearCache ==
    /\ tokenCache.set
    /\ tokenCache' = [set |-> FALSE]
    /\ UNCHANGED <<clock, tokens, lastCall, ticks, JwtRest>>

\* time passes between two calls
Tick ==
    /\ ticks < MaxTicks
    /\ \E d \in TickSteps : clock' = clock + d
    /\ ticks' = ticks + 1
    /\ UNCHANGED <<tokenCache, tokens, lastCall, JwtRest>>

JwtNext == GetTokenCached \/ GetTokenFresh \/ ClearCache \/ Tick

SpecJwt == JwtInit /\ [][JwtNext]_vars

\* C19: a getToken call made less than 19 minutes after the cached token was
\* generated, with no clearCache in between, returns that token and generates
\* none; a call at or after 19 minutes, or after clearCache, generates a new
\* token and caches it; and no token is returned past its expiry or within
\* less than one minute of it.
C19_TokenCachedNineteenMinutes ==
    lastCall.made =>
        /\ IF lastCall.before.set
              /\ lastCall.at - tokens[lastCall.before.token].generatedAt < CacheLifetime
           THEN ~lastCall.generated /\ lastCall.token = lastCall.before.token
           ELSE /\ lastCall.generated
                /\ lastCall.after.set /\ lastCall.after.token = lastCall.token
                /\ tokens[lastCall.token].generatedAt = lastCall.at
        /\ tokens[lastCall.token].exp * 1000 - lastCall.at >= 60 * 1000

---------------------------------------------------------------------------
(* AppStoreClient: rate limiting, and SpecRate *)

\* if (this.requestCount >= 3500): the count at which request() waits
RateThreshold == 3500

\* the upstream limit of requests per hour
UpstreamLimit == 3600

\* the most concurrent callers of request() and the most failed requests
MaxCallers == 2
MaxFailures == 1

Callers == 1..MaxCallers

\* the request counts a run starts from: a new client, and a client that
\* has made RateThreshold - 2 successful requests in the current hour
StartCounts == {0, RateThreshold - 2}

RateInit ==
    /\ requestCount \in StartCounts
    /\ windowIssued = requestCount
    /\ windowExpired = FALSE
    /\ callers = [c \in Callers |-> "idle"]
    /\ failures = 0
    /\ ParseIdle /\ FanIdle /\ FiscalIdle /\ DecodeIdle /\ LatestIdle /\ RecurIdle /\ JwtIdle
    /\ LateIdle

RateRest == <<parseVars, fanVars, fiscalVars, decodeVars, latestVars, recurVars, jwtVars,
               lateVars>>

\* more than an hour has passed since requestResetTime was set
HourPasses ==
    /\ ~windowExpired
    /\ windowExpired' = TRUE
    /\ UNCHANGED <<requestCount, windowIssued, callers, failures, RateRest>>

\* request(): checkRateLimit up to its await, and, when it does not sleep,
\* the HTTP request that follows it
CallRequest(c) ==
    /\ callers[c] = "idle"
    /\ LET count == IF windowExpired THEN 0 ELSE requestCount
           issued == IF windowExpired THEN 0 ELSE windowIssued
       IN  IF count >= RateThreshold
           THEN /\ callers' = [callers EXCEPT ![c] = "sleeping"]
                /\ requestCount' = count /\ windowIssued' = issued
           ELSE /\ callers' = [callers EXCEPT ![c] = "waiting"]
                /\ requestCount' = count /\ windowIssued' = issued + 1
    /\ windowExpired' = FALSE
    /\ UNCHANGED <<failures, RateRest>>

\* the sleep of checkRateLimit ends at requestResetTime: the count and the
\* window are reset and the HTTP request is made
WakeUp(c) ==
    /\ callers[c] = "sleeping"
    /\ requestCount' = 0
    /\ windowExpired' = FALSE
    /\ windowIssued' = 1
    /\ callers' = [callers EXCEPT ![c] = "waiting"]
    /\ UNCHANGED <<failures, RateRest>>

\* the response arrives: this.requestCount++
RequestSucceeds(c) ==
    /\ callers[c] = "waiting"
    /\ requestCount' = requestCount + 1
    /\ callers' = [callers EXCEPT ![c] = "idle"]
    /\ UNCHANGED <<windowExpired, windowIssued, failures, RateRest>>

\* the request fails: handleError throws and the count stays as it is
RequestFails(c) ==
    /\ callers[c] = "waiting"
    /\ failures < MaxFailures
    /\ failures' = failures + 1
    /\ callers' = [callers EXCEPT ![c] = "idle"]
    /\ UNCHANGED <<requestCount, windowExpired, windowIssued, RateRest>>

RateNext ==
    \/ HourPasses
    \/ \E c \in Callers : CallRequest(c)
    \/ \E c \in Callers : WakeUp(c)
    \/ \E c \in Callers : RequestSucceeds(c)
    \/ \E c \in Callers : RequestFails(c)

SpecRate == RateInit /\ [][RateNext]_vars

\* C20: the number of HTTP requests issued between two resets of the
\* rate-limit window never exceeds 3500, hence never the upstream limit of
\* 3600 per hour, whether the requests succeed or fail and whether they are
\* made one after another or concurrently.
C20_NeverAboveThreshold ==
    windowIssued <= RateThreshold /\ windowIssued <= UpstreamLimit
---------------------------------------------------------------------------
(* AppStoreClient.request and the 429 answer: SpecRetry *)

\* One call of request(endpoint, params).  upstream is what the upstream
\* answers to the first and to the second HTTP request of the call, should the
\* call make them.  An answer with status 429 also carries retryAfter, the
\* Retry-After header ("" when the header is absent).

\* retryAfter ? parseInt(retryAfter) * 1000 : 60000
RetryWaitTime(retryAfter) ==
    IF retryAfter # "" THEN ParseInt(retryAfter) * 1000 ELSE 60000

\* status 429 with Apple's errors array
RateLimited(retryAfter) ==
    [status |-> 429, detail |-> "Rate limit exceeded", retryAfter |-> retryAfter]

\* status 429 with a body that has no errors array
RateLimitedPlain == [status |-> 429, detail |-> "", retryAfter |-> "1"]

RetryAnswers ==
    { Report("page"), RateLimited(""), RateLimited("1"), RateLimited("20"),
      RateLimitedPlain, NotFound, AuthFailure }

\* handleError reaches case 429 of its switch
SleepsOn(answer) == answer.status = 429 /\ answer.detail # ""

RetryInit ==
    /\ upstream \in [1..2 -> RetryAnswers]
    /\ rpc = "call"
    /\ sent = 0
    /\ sleptMs = 0
    /\ reply = [kind |-> "none"]
    /\ EarlyIdle /\ ToolIdle

RetryRest == <<earlyVars, toolVars>>

\* request(): this.axiosInstance.get(endpoint, {params}) and, on a 2xx
\* answer, return response.data
RequestGet ==
    /\ rpc = "call"
    /\ sent' = sent + 1
    /\ LET answer == upstream[sent + 1]
       IN  IF answer.status = 200
           THEN /\ reply' = [kind |-> "returned", value |-> answer.data]
                /\ rpc' = "done"
           ELSE /\ reply' = reply
                /\ rpc' = "error"
    /\ UNCHANGED <<upstream, sleptMs, RetryRest>>

\* the response interceptor's handleError, case 429: await this.sleep(waitTime)
HandleErrorSleep ==
    /\ rpc = "error"
    /\ SleepsOn(upstream[sent])
    /\ sleptMs' = sleptMs + RetryWaitTime(upstream[sent].retryAfter)
    /\ rpc' = "slept"
    /\ UNCHANGED <<upstream, sent, reply, RetryRest>>

\* handleError throws, and request() rethrows to its caller
HandleErrorThrow ==
    /\ \/ rpc = "slept"
       \/ rpc = "error" /\ ~SleepsOn(upstream[sent])
    /\ reply' = [ kind |-> "threw",
                  message |-> handleError(upstream[sent].status, upstream[sent].detail) ]
    /\ rpc' = "done"
    /\ UNCHANGED <<upstream, sent, sleptMs, RetryRest>>

RetryNext == RequestGet \/ HandleErrorSleep \/ HandleErrorThrow

SpecRetry == RetryInit /\ [][RetryNext]_vars

\* C21: when the upstream answers a request with 429 and would answer the
\* same request, issued again, with 200, the call of request() ends with the
\* response returned after a second request, not with a rate-limit error.
C21_RateLimitRetried ==
    (rpc = "done" /\ upstream[1].status = 429 /\ upstream[2].status = 200) =>
        (sent = 2 /\ reply.kind = "returned")

---------------------------------------------------------------------------
(* The CallTool handler of AppStoreMCPServer: SpecTool *)

\* The argument object is the record of the properties the tools read; ""
\* and 0 stand for a property that is absent.  What a service call does is
\* given by its outcome: [ok |-> TRUE, value |-> v] or
\* [ok |-> FALSE, message |-> m] for the Error it throws.

\* the names in the switch of executeTool
KnownTools ==
    { "list_apps", "get_app", "get_sales_report", "get_revenue_metrics",
      "get_subscription_metrics", "get_monthly_revenue", "get_subscription_renewals",
      "get_monthly_subscription_analytics", "get_app_analytics",
      "get_testflight_metrics", "get_beta_testers", "get_customer_reviews",
      "get_review_metrics", "test_connection", "get_api_stats" }

ToolNames == KnownTools \cup {"delete_app"}

ArgObjects ==
    [ appId : {"", "123"}, bundleId : {"", "com.example.app"},
      year : {0, 2025}, month : {0, 9} ]

\* the tools whose services read reports and need the vendor number
ReportTools ==
    { "get_sales_report", "get_revenue_metrics", "get_subscription_metrics",
      "get_monthly_revenue" }

\* what a service called by the tool may do: return, or throw the error of a
\* 401 answer or, for a report without vendor number, the configuration error
ServiceOutcomes(name) ==
    { [ok |-> TRUE, value |-> "data"],
      [ok |-> FALSE, message |-> handleError(401, "Token expired")] }
    \cup
    IF name \in ReportTools
    THEN { [ok |-> FALSE,
            message |-> "Vendor number required for financial reports. Set APP_STORE_VENDOR_NUMBER"] }
    ELSE {}

Returns(v) == [ok |-> TRUE, value |-> v]
Throws(m) == [ok |-> FALSE, message |-> m]

\* AppStoreMCPServer.executeTool(name, args).  first is the outcome of the
\* service call the tool makes, second that of the call it falls back to.
executeTool(name, args, first, second) ==
    CASE name = "get_app" ->
            IF args.bundleId # "" \/ args.appId # "" THEN first
            ELSE Throws("Either appId or bundleId is required")
      [] name = "get_revenue_metrics" ->
            IF first.ok
            THEN Returns([MRR |-> first.value, currency |-> "USD"])
            ELSE second
      [] name = "get_monthly_revenue" ->
            IF args.year = 0 \/ args.month = 0
            THEN Throws("Year and month are required for monthly revenue")
            ELSE IF first.ok
                 THEN Returns([summary |-> first.value, source |-> "FINANCIAL"])
                 ELSE IF second.ok
                      THEN Returns([salesData |-> second.value, source |-> "SALES"])
                      ELSE second
      [] name = "get_monthly_subscription_analytics" ->
            IF args.year = 0 \/ args.month = 0
            THEN Throws("Year and month are required for subscription analytics")
            ELSE first
      [] name = "get_app_analytics" ->
            IF args.appId = "" THEN Throws("App ID is required for analytics") ELSE first
      [] name = "get_customer_reviews" ->
            IF args.appId = "" THEN Throws("App ID is required for reviews") ELSE first
      [] name = "get_review_metrics" ->
            IF args.appId = "" THEN Throws("App ID is required for review metrics")
            ELSE first
      [] name = "test_connection" ->
            Returns([ connected |-> first.ok,
                      message |-> IF first.ok
                                  THEN "Successfully connected to App Store Connect"
                                  ELSE "Connection failed" ])
      [] name = "get_api_stats" -> Returns("stats")
      [] name \in KnownTools -> first
      [] OTHER -> Throws("Unknown tool: " \o name)

\* the CallTool handler around executeTool: the response it returns
CallToolResponse(executed) ==
    IF executed.ok
    THEN [ made |-> TRUE, content |-> [type |-> "text", result |-> executed.value] ]
    ELSE [ made |-> TRUE, content |-> [type |-> "text", text |-> "Error: " \o executed.message],
           isError |-> TRUE ]

ToolInit ==
    /\ toolName \in ToolNames
    /\ toolArgs \in ArgObjects
    /\ tpc = "call"
    /\ salesLog = <<>>
    /\ toolResponse = [made |-> FALSE]
    /\ EarlyIdle /\ RetryIdle

ToolRest == <<earlyVars, retryVars>>

\* the handler is called with {name, arguments}
CallTool ==
    /\ tpc = "call"
    /\ \E first \in ServiceOutcomes(toolName), second \in ServiceOutcomes(toolName) :
          toolResponse' = CallToolResponse(executeTool(toolName, toolArgs, first, second))
    /\ tpc' = "done"
    /\ UNCHANGED <<toolName, toolArgs, salesLog, ToolRest>>

ToolNext == CallTool

SpecTool == ToolInit /\ [][ToolNext]_vars

\* the words by which a message can name the operation of a tool
OperationWords(name) ==
    CASE name = "get_monthly_revenue" -> "monthly revenue"
      [] name = "get_monthly_subscription_analytics" -> "subscription analytics"
      [] name = "get_app_analytics" -> "analytics"
      [] name = "get_customer_reviews" -> "reviews"
      [] name = "get_review_metrics" -> "review metrics"
      [] name = "get_sales_report" -> "sales report"
      [] name = "get_revenue_metrics" -> "revenue metrics"
      [] name = "get_subscription_metrics" -> "subscription metrics"
      [] name = "get_subscription_renewals" -> "subscription renewals"
      [] OTHER -> name

\* the text names the tool or its operation
NamesOperation(text, name) ==
    Includes(text, name) \/ Includes(text, OperationWords(name))

\* C22: the handler always answers; a response made for a failure of
\* executeTool has isError = true and a text that names the operation that
\* failed and gives the reason, and a response made for a success has no isError.
C22_FailuresAreStructured ==
    tpc = "done" =>
        /\ toolResponse.made
        /\ "isError" \in DOMAIN toolResponse =>
              /\ toolResponse.isError
              /\ "text" \in DOMAIN toolResponse.content
              /\ NamesOperation(toolResponse.content.text, toolName)
        /\ "isError" \notin DOMAIN toolResponse =>
              "result" \in DOMAIN toolResponse.content

---------------------------------------------------------------------------
(* The get_revenue_metrics tool: SpecRevenueTool *)

\* The tool runs getLatestAvailable (the actions of SpecLatest) and then acts
\* on what it returned or threw.

\* what the upstream may answer to a monthly request on /salesReports
MonthlySalesAnswers == {NotFound, AuthFailure, Day100}

\* the value the tool builds from the result of getLatestAvailable
RevenueFromLatest(l) ==
    [ MRR |-> l.totalRevenue, ARR |-> Mul(l.totalRevenue, 12), currency |-> "USD",
      lastUpdated |-> l.metadata.month, byRegion |-> l.byRegion ]

\* a variant whose fallback also runs after getLatestAvailable returned
EntersCatchAlways(o) == o # "none"

\* the catch block of the tool is entered: getLatestAvailable threw
EntersCatch(o) == o = "threw"

RevenueToolInit ==
    /\ now \in NowMonths
    /\ lpc = "probe" /\ probeIndex = 0
    /\ monthSummary = "none" /\ regionsDone = 0
    /\ probes = <<>>
    /\ latestOutcome = "none" /\ latest = "none"
    /\ toolName = "get_revenue_metrics"
    /\ toolArgs \in {a \in ArgObjects : a.year = 0 /\ a.month = 0 /\ a.bundleId = ""}
    /\ tpc = "call"
    /\ salesLog = <<>>
    /\ toolResponse = [made |-> FALSE]
    /\ vendorNumber \in VendorNumbers
    /\ op = "none" /\ year = 0 /\ month = 0
    /\ pc = "idle" /\ slice = 0 /\ acc = "none" /\ outcome = "none"
    /\ result = "none" /\ requests = 0 /\ errorsLogged = 0 /\ hist = "none"
    /\ ParseIdle /\ FiscalIdle /\ DecodeIdle /\ RecurIdle /\ JwtIdle /\ RateIdle
    /\ RetryIdle

RevenueToolRest ==
    <<parseVars, fanVars, fiscalVars, decodeVars, latestVars, recurVars, jwtVars,
      rateVars, retryVars, toolName, toolArgs>>

\* getLatestAvailable returned: the tool returns its figures
RevenueToolFinancial ==
    /\ tpc = "call" /\ latestOutcome = "returned"
    /\ toolResponse' = CallToolResponse(Returns(RevenueFromLatest(latest)))
    /\ tpc' = "done"
    /\ UNCHANGED <<salesLog, RevenueToolRest>>

\* getLatestAvailable threw: FinanceService.getRevenueMetrics, its try block
RevenueToolSubscription ==
    /\ tpc = "call" /\ EntersCatch(latestOutcome)
    /\ \E answer \in MonthlySalesAnswers :
          LET fetched == getSalesReport(vendorNumber, "SUBSCRIPTION", answer)
          IN  /\ salesLog' = IF fetched.requests = 1
                             THEN Append(salesLog, "SUBSCRIPTION") ELSE salesLog
              /\ IF fetched.ok
                 THEN /\ toolResponse' = CallToolResponse(
                              Returns(calculateRevenueMetricsFromData(fetched.value)))
                      /\ tpc' = "done"
                 ELSE /\ toolResponse' = toolResponse
                      /\ tpc' = "sales"
    /\ UNCHANGED RevenueToolRest

\* FinanceService.getRevenueMetrics, its catch block
RevenueToolSales ==
    /\ tpc = "sales"
    /\ \E answer \in MonthlySalesAnswers :
          LET fetched == getSalesReport(vendorNumber, "SALES", answer)
          IN  /\ salesLog' = IF fetched.requests = 1
                             THEN Append(salesLog, "SALES") ELSE salesLog
              /\ toolResponse' =
                    CallToolResponse(
                        IF fetched.ok
                        THEN Returns(calculateRevenueMetricsFromData(fetched.value))
                        ELSE Throws(fetched.message))
    /\ tpc' = "done"
    /\ UNCHANGED RevenueToolRest

RevenueToolNext ==
    \/ LatestProbe
    \/ LatestSummaryRegion
    \/ LatestSummaryReturn
    \/ LatestThrow
    \/ RevenueToolFinancial
    \/ RevenueToolSubscription
    \/ RevenueToolSales

SpecRevenueTool == RevenueToolInit /\ [][RevenueToolNext]_vars

\* C23: get_revenue_metrics runs getLatestAvailable first and, when it
\* returns, answers from it without any /salesReports request; only after it
\* threw is the monthly SUBSCRIPTION report requested, and the monthly SALES
\* report only after that stage failed; the response is an error only when
\* all three stages failed.
C23_FinancialFirstSalesFallback ==
    /\ salesLog \in {<<>>, <<"SUBSCRIPTION">>, <<"SUBSCRIPTION", "SALES">>}
    /\ latestOutcome # "threw" => salesLog = <<>>
    /\ latestOutcome = "none" => tpc = "call"
    /\ (tpc = "done" /\ latestOutcome = "returned") =>
          /\ "isError" \notin DOMAIN toolResponse
          /\ toolResponse.content.result = RevenueFromLatest(latest)
    /\ (tpc = "done" /\ Len(salesLog) = 1) => "isError" \notin DOMAIN toolResponse
    /\ (tpc = "done" /\ "isError" \in DOMAIN toolResponse) =>
          /\ latestOutcome = "threw"
          /\ vendorNumber # "" => salesLog = <<"SUBSCRIPTION", "SALES">>
    /\ Len(salesLog) = 2 => tpc = "done"

\* the financial stage threw, the SUBSCRIPTION request failed and the SALES
\* request answered
C23_Witness ==
    /\ tpc = "done" /\ latestOutcome = "threw"
    /\ salesLog = <<"SUBSCRIPTION", "SALES">>
    /\ "isError" \notin DOMAIN toolResponse

---------------------------------------------------------------------------
(* The get_monthly_revenue tool over getMonthlySummary *)

\* the outcome of the fan-out operation that has finished, as its caller sees it
FanoutOutcome == IF outcome = "returned" THEN Returns(result) ELSE Throws(result)

\* no FINANCIAL report could be fetched: every region fetch failed, and so
\* did the probe of the next fiscal period
NothingFinancial ==
    /\ hist.fetched = Len(regions)
    /\ hist.notFound + hist.authFailed = Len(regions)
    /\ hist.probe.status # 200

\* C24: when every region fetch and the next-period probe of getMonthlySummary
\* fail, get_monthly_revenue answers with the result of getMonthlyRevenue
\* tagged source = 'SALES', not with a FINANCIAL result of total 0.
C24_FallsBackToSales ==
    (op = "getMonthlySummary" /\ outcome # "none" /\ NothingFinancial) =>
        \A second \in ServiceOutcomes("get_monthly_revenue") :
            second.ok =>
                LET executed == executeTool("get_monthly_revenue",
                                    [ appId |-> "", bundleId |-> "",
                                      year |-> year, month |-> month ],
                                    FanoutOutcome, second)
                IN  executed.ok /\ executed.value.source = "SALES"

---------------------------------------------------------------------------
(* The order of the fan-out *)

\* the number of days of a month of the Gregorian calendar
GregorianDays(y, m) ==
    LET leap == y % 4 = 0 /\ (y % 100 # 0 \/ y % 400 = 0)
    IN  IF m = 2 /\ leap THEN 29
        ELSE <<31, 28, 31, 30, 31, 30, 31, 31, 30, 31, 30, 31>>[m]

\* the region codes of a monthly summary, in the order they are fetched
RegionOrder == <<"US", "CA", "EU", "JP", "AU", "WW">>

\* the request that fetches the SALES report of day d of the requested month
DayRequest(d) ==
    [ endpoint |-> "/salesReports", reportType |-> "SALES", frequency |-> "DAILY",
      reportDate |-> DateStr(year, month, d) ]

\* the request that fetches the FINANCIAL report of the i-th region
RegionRequest(i) ==
    [ endpoint |-> "/financeReports", reportType |-> "FINANCIAL",
      regionCode |-> RegionOrder[i], reportDate |-> getFiscalPeriod(year, month) ]

\* C25: getMonthlyRevenue fetches the days 1..N of the requested month, N the
\* length of the month in the calendar, once each and in ascending order;
\* getMonthlySummary fetches the regions US, CA, EU, JP, AU, WW of the
\* requested period, once each and in that order, and never an all-regions
\* code; one fetch is handled before the next is issued, and a failed fetch
\* neither stops nor reorders the rest.
C25_FanoutCompleteOrdered ==
    /\ \A y \in {1900, 2000, 2023, 2024, 2025}, m \in 1..12 :
          DaysInMonth(y, m) = GregorianDays(y, m)
    /\ (op = "getMonthlyRevenue" /\ vendorNumber # "") =>
          /\ Len(hist.log) = slice /\ requests = slice
          /\ slice <= GregorianDays(year, month)
          /\ \A d \in DOMAIN hist.log : hist.log[d] = DayRequest(d)
          /\ outcome # "threw"
          /\ outcome = "returned" => Len(hist.log) = GregorianDays(year, month)
    /\ op = "getMonthlySummary" =>
          /\ requests = Len(hist.log)
          /\ slice <= Len(RegionOrder)
          /\ pc # "done" => Len(hist.log) = slice
          /\ \A i \in DOMAIN hist.log :
                /\ i <= Len(RegionOrder) => hist.log[i] = RegionRequest(i)
                /\ i > Len(RegionOrder) =>
                      hist.log[i].reportDate # getFiscalPeriod(year, month)
                /\ hist.log[i].regionCode \notin {"ZZ", "Z1"}
          /\ outcome # "threw"
          /\ outcome = "returned" => Len(hist.log) = Len(RegionOrder) + 1

\* the leap February of 2024 was fetched day by day to the 29th although one
\* day failed with 401
C25_Witness ==
    /\ op = "getMonthlyRevenue" /\ outcome = "returned"
    /\ year = 2024 /\ month = 2
    /\ hist.authFailed = 1
    /\ Len(hist.log) = 29 /\ hist.log[29].reportDate = "2024-02-29"

---------------------------------------------------------------------------
(* FinanceService.getSubscriptionMetrics: SpecMetrics *)

\* The operation runs on the variables of the fan-out operations: slice is
\* the number of parameter sets tried, acc holds lastError and hist.log the
\* requests issued.

\* the parameter sets, in their order; version "" is the set without version
parameterSets ==
    << [reportSubType |-> "SUMMARY",  version |-> "1_2"],
       [reportSubType |-> "SUMMARY",  version |-> ""],
       [reportSubType |-> "DETAILED", version |-> "1_3"],
       [reportSubType |-> "SUMMARY",  version |-> "1_3"] >>

\* FinanceService.formatSubscriptionData(parsedData); the sample reports have
\* fewer than five products and countries, so slice(0, 5) keeps them all
formatSubscriptionData(parsedData) ==
    LET m == calculateRevenueMetricsFromData(parsedData)
        sub == m.subscriptions
        has == sub # Undefined
    IN  [ summary |-> "Subscription metrics calculated from report data",
          metrics |-> [ activeSubscribers |-> IF has THEN OrElse(sub.activeCount, 0) ELSE 0,
                        newSubscribers |-> IF has THEN OrElse(sub.newCount, 0) ELSE 0,
                        mrr |-> IF has THEN OrElse(sub.mrr, 0) ELSE 0,
                        arr |-> IF has THEN OrElse(sub.arr, 0) ELSE 0,
                        churnRate |-> 0, avgSubscriptionLength |-> 0,
                        topProducts |-> m.byProduct, topCountries |-> m.byCountry ],
          totalRevenue |-> m.totalRevenue,
          totalUnits |-> m.totalUnits ]

\* a variant of the loop that gives up after the third parameter set
AttemptsLeftThree(i) == i < 3

\* for (const params of parameterSets): a set is left to try
AttemptsLeft(i) == i < Len(parameterSets)

\* what the upstream may answer to one attempt
MetricsAnswers ==
    { NotFound, AppleNotFound, AuthFailure, SubscriptionReport,
      Report(TruncatedGzip("buffer")) }

MetricsInit ==
    /\ op = "getSubscriptionMetrics"
    /\ vendorNumber \in VendorNumbers
    /\ year = 0 /\ month = 0
    /\ pc = "start" /\ slice = 0
    /\ acc = [lastError |-> Null]
    /\ outcome = "none" /\ result = "none"
    /\ requests = 0 /\ errorsLogged = 0
    /\ hist = NewHist
    /\ ParseIdle /\ FiscalIdle /\ AuxIdle

\* without a vendor number: throws before the loop
MetricsNoVendor ==
    /\ op = "getSubscriptionMetrics" /\ pc = "start"
    /\ vendorNumber = ""
    /\ pc' = "done" /\ outcome' = "threw"
    /\ result' = "Vendor number required for subscription reports"
    /\ UNCHANGED <<op, vendorNumber, year, month, slice, acc, requests, errorsLogged,
                   hist, parseVars, fiscalVars, auxVars>>

\* one iteration of the loop: the request with the next parameter set, and
\* either the return of the formatted report or the catch
MetricsAttempt ==
    /\ op = "getSubscriptionMetrics" /\ pc \in {"start", "loop"}
    /\ vendorNumber # ""
    /\ AttemptsLeft(slice)
    /\ \E answer \in MetricsAnswers :
          LET params == parameterSets[slice + 1]
              response == ClientRequest(answer)
          IN  /\ hist' = Logged(Observe(hist, SeenSales(answer)),
                                [ endpoint |-> "/salesReports",
                                  reportType |-> "SUBSCRIPTION",
                                  reportSubType |-> params.reportSubType,
                                  frequency |-> "DAILY", version |-> params.version ])
              /\ IF response.ok
                 THEN /\ result' = formatSubscriptionData(
                                       FinanceParseCSVReport(
                                           FinanceDecompressIfNeeded(response.value),
                                           "SUBSCRIPTION"))
                      /\ pc' = "done" /\ outcome' = "returned"
                      /\ acc' = acc
                 ELSE /\ acc' = [lastError |-> [message |-> response.message]]
                      /\ pc' = "loop"
                      /\ UNCHANGED <<outcome, result>>
    /\ slice' = slice + 1
    /\ requests' = requests + 1
    /\ UNCHANGED <<op, vendorNumber, year, month, errorsLogged, parseVars, fiscalVars,
                   auxVars>>

\* after the loop: throw lastError
MetricsThrow ==
    /\ op = "getSubscriptionMetrics" /\ pc = "loop"
    /\ ~AttemptsLeft(slice)
    /\ pc' = "done" /\ outcome' = "threw"
    /\ result' = IF IsNull(acc.lastError) THEN "Failed to fetch subscription metrics"
                 ELSE acc.lastError.message
    /\ UNCHANGED <<op, vendorNumber, year, month, slice, acc, requests, errorsLogged,
                   hist, parseVars, fiscalVars, auxVars>>

MetricsNext == MetricsNoVendor \/ MetricsAttempt \/ MetricsThrow

SpecMetrics == MetricsInit /\ [][MetricsNext]_vars

\* the four parameter sets in the order of the claim
ExpectedSets ==
    << <<"SUMMARY", "1_2">>, <<"SUMMARY", "">>, <<"DETAILED", "1_3">>,
       <<"SUMMARY", "1_3">> >>

\* C26: getSubscriptionMetrics tries SUMMARY 1_2, SUMMARY without version,
\* DETAILED 1_3 and SUMMARY 1_3 in that order; it returns at the first
\* request that succeeds and issues no request after it; when all four fail it
\* has issued exactly four requests and throws the error of the fourth.
C26_FirstSuccessWins ==
    (op = "getSubscriptionMetrics" /\ vendorNumber # "") =>
        /\ requests = Len(hist.log) /\ requests <= 4
        /\ \A i \in DOMAIN hist.log :
              <<hist.log[i].reportSubType, hist.log[i].version>> = ExpectedSets[i]
        /\ hist.fetched - hist.notFound - hist.authFailed \in {0, 1}
        /\ hist.fetched - hist.notFound - hist.authFailed = 1 <=> outcome = "returned"
        /\ outcome = "returned" =>
              /\ result.summary = "Subscription metrics calculated from report data"
              /\ result.totalRevenue = hist.capped
        /\ outcome = "threw" =>
              /\ requests = 4
              /\ result = acc.lastError.message
        /\ (pc = "done") = (outcome # "none")
        /\ (pc # "done" /\ requests = 4) => ENABLED MetricsThrow

\* the first three sets failed with 404 and the fourth with 401: its error is thrown
C26_Witness ==
    /\ op = "getSubscriptionMetrics" /\ outcome = "threw"
    /\ requests = 4 /\ hist.notFound = 3 /\ hist.authFailed = 1
    /\ result = handleError(401, AuthFailure.detail)

---------------------------------------------------------------------------
(* SubscriptionService.getSubscriptionRenewals step by step: SpecRenewals *)

\* The operation runs on the variables of the fan-out operations: slice is
\* the number of subscription-family reports tried, acc holds the results
\* object (and the answers the upstream will give: answers[1..4] to the
\* subscription-family requests, answers[5] to the SALES request) and
\* hist.log the requests issued.

\* what the upstream may answer to one request of the day
RenewalAnswerSet ==
    { NotFound, AuthFailure, SubscriptionReport, SalesWithSubscription, SalesOneTimeOnly,
      Report(Plain(<<SubscriptionSalesHeader>>)) }

\* the date argument
RenewalDate == "2025-07-01"

\* a variant of the loop without its break
StopsAtNever(rows) == FALSE

\* if (parsed.rows && parsed.rows.length > 0): the loop stores the analysis and breaks
StopsAt(rows) == rows # <<>>

RenewalsInit ==
    /\ op = "getSubscriptionRenewals"
    /\ vendorNumber \in VendorNumbers
    /\ year = 0 /\ month = 0
    /\ pc = "start" /\ slice = 0
    /\ \E a \in [1..5 -> RenewalAnswerSet] :
          acc = [ answers |-> a, renewalData |-> Null, salesData |-> Null,
                  totalNewSubscriptions |-> 0, dataSource |-> "none" ]
    /\ outcome = "none" /\ result = "none"
    /\ requests = 0 /\ errorsLogged = 0
    /\ hist = NewHist
    /\ ParseIdle /\ FiscalIdle /\ AuxIdle

\* without a vendor number: throws before any request
RenewalsNoVendor ==
    /\ op = "getSubscriptionRenewals" /\ pc = "start"
    /\ vendorNumber = ""
    /\ pc' = "done" /\ outcome' = "threw"
    /\ result' = "Vendor number required for subscription reports"
    /\ UNCHANGED <<op, vendorNumber, year, month, slice, acc, requests, errorsLogged,
                   hist, parseVars, fiscalVars, auxVars>>

\* one iteration of the loop over subscriptionParams
RenewalsAttempt ==
    /\ op = "getSubscriptionRenewals" /\ pc \in {"start", "loop"}
    /\ vendorNumber # ""
    /\ slice < Len(subscriptionParams)
    /\ LET params == subscriptionParams[slice + 1]
           response == ClientRequest(acc.answers[slice + 1])
           report == SubscriptionParseCSVReport(
                         SubscriptionDecompressIfNeeded(response.value), params.reportType)
       IN  /\ hist' = Logged(hist, [ endpoint |-> "/salesReports",
                                     reportType |-> params.reportType,
                                     reportSubType |-> params.reportSubType,
                                     frequency |-> "DAILY", reportDate |-> RenewalDate,
                                     version |-> params.version ])
           /\ IF response.ok /\ StopsAt(report.rows)
              THEN /\ acc' = [acc EXCEPT !.renewalData = analyzeSubscriptionData(report),
                                         !.dataSource = params.reportType]
                   /\ pc' = "sales"
              ELSE /\ acc' = acc
                   /\ pc' = "loop"
    /\ slice' = slice + 1
    /\ requests' = requests + 1
    /\ UNCHANGED <<op, vendorNumber, year, month, outcome, result, errorsLogged,
                   parseVars, fiscalVars, auxVars>>

\* after the loop: the SALES request, the estimate and the return
RenewalsSales ==
    /\ op = "getSubscriptionRenewals"
    /\ \/ pc = "sales"
       \/ pc = "loop" /\ slice = Len(subscriptionParams)
    /\ LET salesResponse == ClientRequest(acc.answers[5])
           salesParsed == SubscriptionParseCSVReport(
                              SubscriptionDecompressIfNeeded(salesResponse.value), "SALES")
           hasSales == salesResponse.ok /\ salesParsed.rows # <<>>
           salesData == IF hasSales THEN extractSubscriptionFromSales(salesParsed)
                        ELSE Null
           results ==
               [ date |-> RenewalDate,
                 renewalData |-> acc.renewalData,
                 newSubscriptions |-> Null,
                 salesData |-> salesData,
                 totalRenewals |-> 0,
                 totalNewSubscriptions |->
                     IF hasSales THEN OrElse(salesData.newSubscriptions, 0) ELSE 0,
                 dataSource |->
                     IF hasSales /\ IsNull(acc.renewalData)
                     THEN "SALES_INFERRED" ELSE acc.dataSource ]
       IN  /\ hist' = Logged(hist, [ endpoint |-> "/salesReports", reportType |-> "SALES",
                                     reportSubType |-> "SUMMARY", frequency |-> "DAILY",
                                     reportDate |-> RenewalDate, version |-> "1_1" ])
           /\ result' = [estimatedMRR |-> calculateEstimatedMRR(results)] @@ results
    /\ requests' = requests + 1
    /\ pc' = "done" /\ outcome' = "returned"
    /\ UNCHANGED <<op, vendorNumber, year, month, slice, acc, errorsLogged,
                   parseVars, fiscalVars, auxVars>>

RenewalsNext == RenewalsNoVendor \/ RenewalsAttempt \/ RenewalsSales

SpecRenewals == RenewalsInit /\ [][RenewalsNext]_vars

\* the report types of the requests, in the order of the claim
ExpectedTypes == <<"SUBSCRIPTION", "SUBSCRIPTION", "SUBSCRIPTION_EVENT", "SUBSCRIBER">>

\* answer i of the day parses to at least one row
HasParsedRows(i) ==
    /\ acc.answers[i].status = 200
    /\ SubscriptionParseCSVReport(
           SubscriptionDecompressIfNeeded(acc.answers[i].data),
           IF i = 5 THEN "SALES" ELSE ExpectedTypes[i]).rows # <<>>

\* the first subscription-family report with rows, 0 when there is none
FirstWithRows ==
    IF \E i \in 1..4 : HasParsedRows(i)
    THEN CHOOSE i \in 1..4 : HasParsedRows(i) /\ \A j \in 1..(i - 1) : ~HasParsedRows(j)
    ELSE 0

\* C27: with a vendor number, getSubscriptionRenewals never throws; it
\* requests the four subscription-family reports in their order up to the
\* first that parses to at least one row, then exactly one SALES report; the
\* dataSource returned is the type of that first report, else SALES_INFERRED
\* when the SALES report has rows, else 'none'.
C27_RenewalsNeverRaise ==
    (op = "getSubscriptionRenewals" /\ vendorNumber # "") =>
        /\ outcome # "threw"
        /\ requests = Len(hist.log)
        /\ \A i \in DOMAIN hist.log :
              /\ i <= 4 /\ (pc # "done" \/ i < Len(hist.log)) =>
                    /\ hist.log[i].reportType = ExpectedTypes[i]
                    /\ i <= (IF FirstWithRows = 0 THEN 4 ELSE FirstWithRows)
              /\ hist.log[i].reportType = "SALES" <=> (pc = "done" /\ i = Len(hist.log))
        /\ pc = "done" =>
              /\ outcome = "returned"
              /\ Len(hist.log) = (IF FirstWithRows = 0 THEN 4 ELSE FirstWithRows) + 1
              /\ result.dataSource =
                    IF FirstWithRows # 0 THEN ExpectedTypes[FirstWithRows]
                    ELSE IF HasParsedRows(5) THEN "SALES_INFERRED" ELSE "none"
              /\ result = getSubscriptionRenewals(vendorNumber, RenewalDate, acc.answers).value
              /\ requests = getSubscriptionRenewals(vendorNumber, RenewalDate,
                                                    acc.answers).requests

\* the first two reports failed, the SUBSCRIPTION_EVENT report had rows, and
\* the SALES request was made after it although it answered 401
C27_Witness ==
    /\ op = "getSubscriptionRenewals" /\ outcome = "returned"
    /\ acc.answers[1] = NotFound /\ acc.answers[2] = AuthFailure
    /\ acc.answers[5] = AuthFailure
    /\ Len(hist.log) = 4
    /\ result.dataSource = "SUBSCRIPTION_EVENT"

---------------------------------------------------------------------------
(* The forward probe and the fiscal calendar *)

\* the calendar month after (year, month)
FollowingMonth(ym) == IF ym[2] = 12 THEN <<ym[1] + 1, 1>> ELSE <<ym[1], ym[2] + 1>>

\* C28: the next-period label that isLatestAvailableMonth computes from
\* getFiscalPeriod(year, month) is getFiscalPeriod of the calendar month that
\* follows, also from September to October and from December to January.
C28_ProbeFollowsCalendar ==
    (label1 # "" /\ label2 # "" /\ cal2 = FollowingMonth(cal1)) =>
        NextFiscalPeriod(label1) = label2

\* September 2025 ("2025-12") and October 2025 ("2026-01") have been mapped
C28_Witness ==
    /\ cal1 = <<2025, 9>> /\ cal2 = <<2025, 10>>
    /\ label1 = "2025-12" /\ label2 = "2026-01"
    /\ NextFiscalPeriod(label1) = "2026-01"

---------------------------------------------------------------------------
(* The accumulator of getMonthlyRevenue *)

RECURSIVE BagTotalOver(_, _)
\* the sum of the elements of the multiset b among the values S
BagTotalOver(b, S) ==
    IF S = {} THEN 0
    ELSE LET v == CHOOSE w \in S : TRUE IN v * b[v] + BagTotalOver(b, S \ {v})

\* the sum of the per-day totals
DailyTotalsSum(a) == BagTotalOver(a.dailyRevenues, DOMAIN a.dailyRevenues)

---------------------------------------------------------------------------
(* The denominators of the derived ratios *)

\* the ratios in a result of getMonthlyRevenue: dailyAverage, perTransaction
\* and the percentage of every entry of the three breakdowns
RevenueRatios(stats) ==
    {stats.dailyAverage, stats.perTransaction}
        \cup {stats.topCountries[i].percentage : i \in DOMAIN stats.topCountries}
        \cup {stats.topProducts[i].percentage : i \in DOMAIN stats.topProducts}
        \cup {stats.currencyBreakdown[i].percentage :
                 i \in DOMAIN stats.currencyBreakdown}

\* the ratios in a result of getMonthlySubscriptionAnalytics
AnalyticsRatios(analysis) ==
    {analysis.averageSubscriptionValue, analysis.summary.subscriptionPercentage}
        \cup {analysis.topCountries[i].percentage : i \in DOMAIN analysis.topCountries}

\* the ratios of the operation that has returned
ResultRatios ==
    IF outcome # "returned" THEN {}
    ELSE IF op = "getMonthlyRevenue" THEN RevenueRatios(result)
    ELSE IF op = "getMonthlySubscriptionAnalytics" THEN AnalyticsRatios(result)
    ELSE IF op = "getSubscriptionRenewals" THEN {result.estimatedMRR}
    ELSE {}

\* C30: every average, percentage and estimate in a result of getMonthlyRevenue,
\* getMonthlySubscriptionAnalytics and getSubscriptionRenewals is guarded to 0
\* or divides by a non-zero total, months and days without data or with zero
\* revenue included.
C30_NoZeroDenominator ==
    \A ratio \in ResultRatios : ratio.den # 0
===========================================================================
